---- MODULE Spec2Model ----
(***************************************************************************)
(* A model of the LOD terrain core: the quadtree container and its index   *)
(* arithmetic (src/src/quadtree.rs), the little-endian record reader       *)
(* (src/src/disk_util.rs), the cell / chunk decoder (src/src/cell.rs), the *)
(* textured-quadtree decoder (src/src/texture_quadtree.rs) and the map     *)
(* loader (src/src/map.rs).                                                *)
(*                                                                         *)
(* The module holds several specifications over one set of variables:      *)
(*   SpecTree    the quadtree functions applied to bounded inputs          *)
(***************************************************************************)
EXTENDS Integers, Sequences, FiniteSets, TLC

VARIABLES
    depth,      \* quadtree harness: the depth the tree is built with
    elements,   \* quadtree harness: the flat input list
    tree,       \* quadtree harness: the tree built from elements (or NoTree)
    op,         \* the last function applied (quadtree and reader harnesses)
    arg,        \* its argument
    out,        \* its result
    reader,     \* BufReader over a file: [buf, pos, seeks]
    fs,         \* the files on disk: path -> bytes, or Missing
    call,       \* the decoder running and its arguments (Cell::new, ...)
    pc,         \* where the running decoder stands
    header,     \* the decoded file header
    offsets,    \* the offset table: [n, vals], entries not yet read are 0
    tiles,      \* the tiles decoded so far
    loop,       \* the loop counters of the decoder
    result,     \* what the decoder returned: Ok, Err or Panic
    opened,     \* the paths File::open was called on, in order
    map,        \* Map::new: its position, its locals and what it returned
    box,        \* geometry: the AABB operated on
    camera,     \* geometry: the camera the frustum was built from
    frustum,    \* geometry: the six planes of the view volume
    new_cell,   \* placement: the cell put_in_map is called on
    app         \* event loop: the swapchain, the window and swapachain_state

treeVars == <<depth, elements, tree>>

callVars == <<op, arg, out>>

loadVars == <<fs, call, pc, header, offsets, tiles, loop, result, opened>>

geoVars == <<box, camera, frustum, new_cell, app>>

vars == <<depth, elements, tree, op, arg, out, reader,
          fs, call, pc, header, offsets, tiles, loop, result, opened, map,
          box, camera, frustum, new_cell, app>>

(***************************************************************************)
(* Bounds of the model.                                                    *)
(***************************************************************************)
\* largest depth a tree is built with
MaxDepth == 3
\* largest depth full_size is applied to
MaxSizeDepth == 10
\* element lists are start, start + stride, start + 2*stride, ...
MaxStart == 1
MaxStride == 2
\* longest byte buffer read_value is applied to on its own
MaxBufLen == 9
\* most seeks made on one such buffer
MaxSeeks == 1
\* largest depth of a well-formed cell file
MaxCellDepth == 2

\* SpecMap: the depth of the files of a map, and the cells of a map
MaxMapDepth == 2

MaxMapCells == 2

(***************************************************************************)
(* Results of operations that may panic.                                   *)
(***************************************************************************)
Ok(v) == [ok |-> TRUE, v |-> v]

Panic(msg) == [ok |-> FALSE, panic |-> msg]

\* Result::Err(&'static str)
Err(msg) == [ok |-> FALSE, err |-> msg]

(***************************************************************************)
(* quadtree.rs, mod util                                                   *)
(***************************************************************************)
\* 4u32.pow(depth) with the wrapping of a release build: 4^16 = 2^32 wraps to 0.
Pow4(d) == IF d >= 16 THEN 0 ELSE 4 ^ d

\* a plausible slip: the number of leaves instead of the number of nodes
full_size_leaves(d) == Pow4(d)

\* pub fn full_size(depth: u32) -> u32 { 4u32.pow(depth) / 3 }
full_size(d) == Pow4(d) \div 3

\* a plausible slip: row scaled by the level instead of shifted by it
node_index_mul(level, row, col) == full_size(level) + (row * level) + col

\* pub fn node_index(level, row, col) -> u32 { full_size(level) + (row << level) + col }
\* (row << level is row * 2^level; no bit is shifted out for the levels used)
node_index(level, row, col) == full_size(level) + (row * (2 ^ level)) + col

(***************************************************************************)
(* quadtree.rs, enum QuadTree<T> { Element(T), Quadrant(Box<Quadrant<T>>) } *)
(***************************************************************************)
\* no tree built yet
NoTree == [none |-> TRUE]

Element(v) == [tag |-> "Element", v |-> v]

Quadrant(nw, ne, se, sw, d) ==
    [tag |-> "Quadrant", nw |-> nw, ne |-> ne, se |-> se, sw |-> sw, depth |-> d]

\* Vec::split_off(at): the tail [at, len) is returned, the head [0, at) stays
SplitTail(s, at) == SubSeq(s, at + 1, Len(s))

SplitHead(s, at) == SubSeq(s, 1, at)

RECURSIVE build_tree(_, _)

\* a plausible slip: se and sw taken in row-major order (sw before se)
RECURSIVE build_tree_rowmajor(_, _)
build_tree_rowmajor(elems, d) ==
    LET n == 4 ^ d IN
    IF Len(elems) # n THEN Panic("assertion failed")
    ELSE IF d = 0 THEN Element(elems[Len(elems)])
    ELSE LET south == SplitTail(elems, n \div 2)
             north == SplitHead(elems, n \div 2)
             ne == SplitTail(north, n \div 4)
             nw == SplitHead(north, n \div 4)
             se == SplitTail(south, n \div 4)
             sw == SplitHead(south, n \div 4)
         IN  Quadrant(build_tree_rowmajor(nw, d - 1), build_tree_rowmajor(ne, d - 1),
                      build_tree_rowmajor(se, d - 1), build_tree_rowmajor(sw, d - 1), d)

\* pub fn build_tree(mut elements: Vec<T>, depth: u32) -> QuadTree<T>
build_tree(elems, d) ==
    LET n == 4 ^ d IN
    IF Len(elems) # n THEN Panic("assertion failed")
    ELSE IF d = 0 THEN Element(elems[Len(elems)])
    ELSE LET south == SplitTail(elems, n \div 2)
             north == SplitHead(elems, n \div 2)
             ne == SplitTail(north, n \div 4)
             nw == SplitHead(north, n \div 4)
             sw == SplitTail(south, n \div 4)
             se == SplitHead(south, n \div 4)
         IN  Quadrant(build_tree(nw, d - 1), build_tree(ne, d - 1),
                      build_tree(se, d - 1), build_tree(sw, d - 1), d)

\* pub fn depth(&self) -> u32
tree_depth(t) == IF t.tag = "Element" THEN 0 ELSE t.depth

RECURSIVE index_flat(_, _)
\* impl Index<usize> for QuadTree<T>
index_flat(t, flat_id) ==
    IF t.tag = "Element"
    THEN IF flat_id # 0 THEN Panic("ID out of bound") ELSE Ok(t.v)
    ELSE LET n == 4 ^ (t.depth - 1) IN
         IF flat_id < n THEN index_flat(t.nw, flat_id)
         ELSE IF flat_id >= n /\ flat_id < 2 * n THEN index_flat(t.ne, flat_id - n)
         ELSE IF flat_id >= 2 * n /\ flat_id < 3 * n THEN index_flat(t.se, flat_id - 2 * n)
         ELSE IF flat_id >= 3 * n /\ flat_id < 4 * n THEN index_flat(t.sw, flat_id - 3 * n)
         ELSE Panic("ID out of bound")

RECURSIVE index_grid(_, _, _)

\* a plausible slip: the column offset is not removed when descending east
RECURSIVE index_grid_nocol(_, _, _)
index_grid_nocol(t, row, col) ==
    IF t.tag = "Element" THEN Panic("Cannot index into element")
    ELSE IF t.depth = 1
         THEN CASE row = 0 /\ col = 0 -> index_flat(t.nw, 0)
                [] row = 0 /\ col = 1 -> index_flat(t.ne, 0)
                [] row = 1 /\ col = 1 -> index_flat(t.se, 0)
                [] row = 1 /\ col = 0 -> index_flat(t.sw, 0)
                [] OTHER -> Panic("Index out of bounds")
         ELSE LET half_width == 2 ^ (t.depth - 1) IN
              IF row < half_width /\ col < half_width
              THEN index_grid_nocol(t.nw, row, col)
              ELSE IF row < half_width /\ col >= half_width
              THEN index_grid_nocol(t.ne, row, col - half_width)
              ELSE IF row >= half_width /\ col >= half_width
              THEN index_grid_nocol(t.se, row - half_width, col - half_width)
              ELSE index_grid_nocol(t.sw, row - half_width, col - half_width)

\* impl Index<(usize, usize)> for QuadTree<T>
index_grid(t, row, col) ==
    IF t.tag = "Element" THEN Panic("Cannot index into element")
    ELSE IF t.depth = 1
         THEN CASE row = 0 /\ col = 0 -> index_flat(t.nw, 0)
                [] row = 0 /\ col = 1 -> index_flat(t.ne, 0)
                [] row = 1 /\ col = 1 -> index_flat(t.se, 0)
                [] row = 1 /\ col = 0 -> index_flat(t.sw, 0)
                [] OTHER -> Panic("Index out of bounds")
         ELSE LET half_width == 2 ^ (t.depth - 1) IN
              IF row < half_width /\ col < half_width
              THEN index_grid(t.nw, row, col)
              ELSE IF row < half_width /\ col >= half_width
              THEN index_grid(t.ne, row, col - half_width)
              ELSE IF row >= half_width /\ col >= half_width
              THEN index_grid(t.se, row - half_width, col - half_width)
              ELSE index_grid(t.sw, row - half_width, col)

\* A `&mut T` into the tree is the place it points to: the path of quadrant
\* names from the root to the Element holding the value.
Under(q, paths) == [k \in 1..Len(paths) |-> <<q>> \o paths[k]]

RECURSIVE mut_view(_)
\* pub fn mut_view(&mut self) -> Vec<&mut T>
mut_view(t) ==
    IF t.tag = "Element" THEN << <<>> >>
    ELSE Under("nw", mut_view(t.nw)) \o Under("ne", mut_view(t.ne))
         \o Under("se", mut_view(t.se)) \o Under("sw", mut_view(t.sw))

RECURSIVE Deref(_, _)
\* the value a reference handed out by mut_view points to
Deref(t, path) ==
    IF path = <<>> THEN t.v
    ELSE LET q == Head(path) IN
         Deref(IF q = "nw" THEN t.nw ELSE IF q = "ne" THEN t.ne
               ELSE IF q = "se" THEN t.se ELSE t.sw, Tail(path))

(***************************************************************************)
(* The complete quadtree the decoders build (QuadTree::build_complete_tree, *)
(* items_at_level).  Their definition is not among the source files; only  *)
(* the calls are (cell.rs:217, texture_quadtree.rs:98, app.rs:293).  They  *)
(* are modelled from the design document, sections 3 and 4.2: every node   *)
(* carries a value, an internal node also four children nw, ne, se, sw;    *)
(* the node at flat position i has its children at (i << 2) + 1..4; the    *)
(* recursion ends with a leaf at level depth - 1.                          *)
(***************************************************************************)
Leaf(v) == [tag |-> "Leaf", value |-> v]

Node(v, nw, ne, se, sw) ==
    [tag |-> "Node", value |-> v, nw |-> nw, ne |-> ne, se |-> se, sw |-> sw]

RECURSIVE complete_subtree(_, _, _, _)
complete_subtree(elems, d, i, level) ==
    IF level = d - 1 THEN Leaf(elems[i + 1])
    ELSE Node(elems[i + 1],
              complete_subtree(elems, d, (i * 4) + 1, level + 1),
              complete_subtree(elems, d, (i * 4) + 2, level + 1),
              complete_subtree(elems, d, (i * 4) + 3, level + 1),
              complete_subtree(elems, d, (i * 4) + 4, level + 1))

\* requires elements.len() == full_size(depth), and depth >= 1
build_complete_tree(elems, d) ==
    IF Len(elems) # full_size(d) \/ d < 1 THEN Panic("contract violation")
    ELSE complete_subtree(elems, d, 0, 0)

RECURSIVE complete_depth(_)
\* the number of levels of a complete tree
complete_depth(t) == IF t.tag = "Leaf" THEN 1 ELSE 1 + complete_depth(t.nw)

RECURSIVE items_below(_, _)
\* the values `level` levels below t, depth-first in nw, ne, se, sw order
items_below(t, level) ==
    IF level = 0 THEN <<t.value>>
    ELSE items_below(t.nw, level - 1) \o items_below(t.ne, level - 1)
         \o items_below(t.se, level - 1) \o items_below(t.sw, level - 1)

\* items_at_level(level): fails if level exceeds the tree's depth
items_at_level(t, level) ==
    IF level >= complete_depth(t) THEN Panic("level exceeds depth")
    ELSE Ok(items_below(t, level))

(***************************************************************************)
(* disk_util.rs: the little-endian record reader.                          *)
(*                                                                         *)
(* A BufReader over a file is [buf, pos, seeks]: the bytes of the file,    *)
(* the position of the next read, and the targets of the seeks made so     *)
(* far.  The model's integers are 31 bits wide, so a decoded unsigned      *)
(* value is kept exactly below Cap and saturates at Cap above it; every    *)
(* comparison the decoders make is against a number far below Cap.  A u64  *)
(* saturates at Cap - 1 up to i64::MAX and is Cap above i64::MAX, the      *)
(* offsets File::seek rejects.                                             *)
(***************************************************************************)
Cap == (2 ^ 30 - 1) * 2 + 1

NoReader == [buf |-> <<>>, pos |-> 0, seeks |-> <<>>]

\* BufReader::new(file)
NewReader(bytes) == [buf |-> bytes, pos |-> 0, seeks |-> <<>>]

Min(a, b) == IF a < b THEN a ELSE b

Max(a, b) == IF a > b THEN a ELSE b

\* std::mem::size_of::<T>() for the types of impl_readable!
SizeOf(ty) ==
    CASE ty = "i16" -> 2
      [] ty = "u16" -> 2
      [] ty = "u32" -> 4
      [] ty = "f32" -> 4
      [] ty = "u64" -> 8

RECURSIVE LeUnsigned(_)
\* the unsigned little-endian value of bytes: bytes[1] is least significant
LeUnsigned(bytes) ==
    IF bytes = <<>> THEN 0
    ELSE LET high == LeUnsigned(Tail(bytes)) IN
         IF high > (Cap - Head(bytes)) \div 256 THEN Cap
         ELSE high * 256 + Head(bytes)

RECURSIVE BeUnsigned(_)
\* a plausible slip: from_be_bytes, bytes[1] most significant
BeUnsigned(bytes) ==
    IF bytes = <<>> THEN 0
    ELSE LET n == Len(bytes)
             high == BeUnsigned(SubSeq(bytes, 1, n - 1))
         IN  IF high > (Cap - bytes[n]) \div 256 THEN Cap
             ELSE high * 256 + bytes[n]

\* a plausible slip: the bytes decoded big-endian
from_be_bytes(ty, bytes) ==
    LET v == BeUnsigned(bytes) IN
    CASE ty = "i16" -> IF v >= 32768 THEN v - 65536 ELSE v
      [] ty = "u64" -> IF bytes[1] >= 128 THEN Cap ELSE Min(v, Cap - 1)
      [] OTHER -> v

\* <$type>::from_le_bytes(bytes); an f32 is kept as its bit pattern
from_le_bytes(ty, bytes) ==
    LET v == LeUnsigned(bytes) IN
    CASE ty = "i16" -> IF v >= 32768 THEN v - 65536 ELSE v
      [] ty = "u64" -> IF bytes[8] >= 128 THEN Cap ELSE Min(v, Cap - 1)
      [] OTHER -> v

\* a plausible slip: the target is assigned before the read is known to succeed
read_value_clobber(rd, ty, into, error_msg) ==
    LET N == SizeOf(ty) IN
    IF Len(rd.buf) - rd.pos >= N
    THEN [rd |-> [rd EXCEPT !.pos = @ + N],
          into |-> from_le_bytes(ty, SubSeq(rd.buf, rd.pos + 1, rd.pos + N)),
          res |-> "ok"]
    ELSE [rd |-> [rd EXCEPT !.pos = Max(@, Len(rd.buf))],
          into |-> 0,
          res |-> error_msg]

\* pub fn read_value(reader, into, error_msg) -> Result<(), &str>
\* read_exact fills the N-byte buffer or fails (having consumed what was
\* left); *into is assigned only after the `?`.
read_value(rd, ty, into, error_msg) ==
    LET N == SizeOf(ty) IN
    IF Len(rd.buf) - rd.pos >= N
    THEN [rd |-> [rd EXCEPT !.pos = @ + N],
          into |-> from_le_bytes(ty, SubSeq(rd.buf, rd.pos + 1, rd.pos + N)),
          res |-> "ok"]
    ELSE [rd |-> [rd EXCEPT !.pos = Max(@, Len(rd.buf))],
          into |-> into,
          res |-> error_msg]

\* reader.seek(SeekFrom::Start(offset)): fails above i64::MAX, else moves the
\* position to offset, which may lie past the end of the file
seek_start(rd, offset) ==
    IF offset >= Cap
    THEN [rd |-> [rd EXCEPT !.seeks = Append(@, offset)], res |-> "seek failed"]
    ELSE [rd |-> [rd EXCEPT !.pos = offset, !.seeks = Append(@, offset)], res |-> "ok"]

(***************************************************************************)
(* cell.rs: the cell / chunk decoder.                                      *)
(***************************************************************************)
\* Option<T>
None == <<>>

Some(x) == <<x>>

\* a path no file is stored under
Missing == <<-1>>

\* const MAGIC: u32 = 0x63656C6C
CELL_MAGIC == 1667591276

MIN_DEPTH == 1

MAX_DEPTH == 9

RECURSIVE read_fields(_, _, _)
RECURSIVE read_fields_step(_, _, _)
\* a run of `read_value(reader, &mut x, msg)?` statements over variables that
\* start at 0: fields is the sequence of <<type, msg>>; the values read are
\* returned in order, or the message of the first read that fails
read_fields(rd, fields, acc) ==
    IF fields = <<>> THEN [rd |-> rd, res |-> Ok(acc)]
    ELSE read_fields_step(read_value(rd, Head(fields)[1], 0, Head(fields)[2]),
                          Tail(fields), acc)

\* the `?` after one read_value
read_fields_step(r, rest, acc) ==
    IF r.res # "ok" THEN [rd |-> r.rd, res |-> Err(r.res)]
    ELSE read_fields(r.rd, rest, Append(acc, r.into))

\* Ok(Self { magic, compressed: compressed != 0, size, depth })
CellHeader_of(r) ==
    IF ~r.res.ok THEN r
    ELSE [rd |-> r.rd,
          res |-> Ok([magic |-> r.res.v[1], compressed |-> (r.res.v[2] # 0),
                      size |-> r.res.v[3], depth |-> r.res.v[4]])]

\* CellHeader::read_from
CellHeader_read_from(rd) ==
    CellHeader_of(read_fields(rd,
        << <<"u32", "Unable to read magic no.">>,
           <<"u32", "Unable to read compressed flag">>,
           <<"u32", "Unable to read size">>,
           <<"u32", "Unable to read depth">> >>, <<>>))

\* a plausible slip: the magic number is checked after the other fields
cell_check_header_magic_last(hdr, cell_width) ==
    IF hdr.compressed THEN Err("Compressed cells are not supported yet")
    ELSE IF hdr.size # cell_width THEN Err("Cell size does not match map cell size")
    ELSE IF hdr.depth < MIN_DEPTH \/ hdr.depth > MAX_DEPTH
         THEN Err("Depth out of supported range.")
    ELSE IF hdr.magic # CELL_MAGIC THEN Err("Invalid magic no.")
    ELSE Ok(hdr.depth)

\* a plausible slip: the size is checked before the compressed flag
cell_check_header_size_first(hdr, cell_width) ==
    IF hdr.magic # CELL_MAGIC THEN Err("Invalid magic no.")
    ELSE IF hdr.size # cell_width THEN Err("Cell size does not match map cell size")
    ELSE IF hdr.compressed THEN Err("Compressed cells are not supported yet")
    ELSE IF hdr.depth < MIN_DEPTH \/ hdr.depth > MAX_DEPTH
         THEN Err("Depth out of supported range.")
    ELSE Ok(hdr.depth)

\* Cell::new, the four checks of the header (lines 77-91)
cell_check_header(hdr, cell_width) ==
    IF hdr.magic # CELL_MAGIC THEN Err("Invalid magic no.")
    ELSE IF hdr.compressed THEN Err("Compressed cells are not supported yet")
    ELSE IF hdr.size # cell_width THEN Err("Cell size does not match map cell size")
    ELSE IF hdr.depth < MIN_DEPTH \/ hdr.depth > MAX_DEPTH
         THEN Err("Depth out of supported range.")
    ELSE Ok(hdr.depth)

\* vec![0; n_tiles]
NewOffsets(n) == [n |-> n, vals |-> <<>>]

\* offsets[i], i counted from 0: a bounds-checked index
OffsetAt(offs, i) ==
    IF i >= offs.n THEN Panic("index out of bounds")
    ELSE IF i < Len(offs.vals) THEN Ok(offs.vals[i + 1])
    ELSE Ok(0)

\* Ok(Self { position: [x as f32, y as f32, z as f32], morph_delta: .. as f32 })
HFVertex_of(r) ==
    IF ~r.res.ok THEN r
    ELSE [rd |-> r.rd,
          res |-> Ok([position |-> <<r.res.v[1], r.res.v[2], r.res.v[3]>>,
                      morph_delta |-> r.res.v[4]])]

\* HFVertex::read_from; an i16 converts to f32 exactly
HFVertex_read_from(rd) ==
    HFVertex_of(read_fields(rd,
        << <<"i16", "Unable to read vertex x">>,
           <<"i16", "Unable to read vertex y">>,
           <<"i16", "Unable to read vertex z">>,
           <<"i16", "Unable to read vertex morph delta">> >>, <<>>))

RECURSIVE read_vertices(_, _, _)
RECURSIVE read_vertices_step(_, _, _)
\* for _ in 0..n_verts { vertices.push(HFVertex::read_from(reader)?) }
read_vertices(rd, n, acc) ==
    IF n = 0 THEN [rd |-> rd, res |-> Ok(acc)]
    ELSE read_vertices_step(HFVertex_read_from(rd), n, acc)

read_vertices_step(r, n, acc) ==
    IF ~r.res.ok THEN r ELSE read_vertices(r.rd, n - 1, Append(acc, r.res.v))

RECURSIVE read_indices(_, _, _)
RECURSIVE read_indices_step(_, _, _)
\* for _ in 0..n_indices { read_value(reader, &mut x, ..)?; indices.push(x) }
read_indices(rd, n, acc) ==
    IF n = 0 THEN [rd |-> rd, res |-> Ok(acc)]
    ELSE read_indices_step(read_value(rd, "u16", 0, "Unable to read index"), n, acc)

read_indices_step(r, n, acc) ==
    IF r.res # "ok" THEN [rd |-> r.rd, res |-> Err(r.res)]
    ELSE read_indices(r.rd, n - 1, Append(acc, r.into))

\* Ok(Self { max_error, n_verts, n_indices, min_y, max_y })
ChunkHeader_of(r) ==
    IF ~r.res.ok THEN r
    ELSE [rd |-> r.rd,
          res |-> Ok([max_error |-> r.res.v[1], n_verts |-> r.res.v[2],
                      n_indices |-> r.res.v[3], min_y |-> r.res.v[4],
                      max_y |-> r.res.v[5]])]

\* ChunkHeader::read_from
ChunkHeader_read_from(rd) ==
    ChunkHeader_of(read_fields(rd,
        << <<"f32", "Unable to read chunk max error">>,
           <<"u32", "Unable to read chunk no. of vertices">>,
           <<"u32", "Unable to read chunk no. of indices">>,
           <<"i16", "Unable to read chunk minimum y">>,
           <<"i16", "Unable to read chunk maximum y">> >>, <<>>))

\* Chunk::read_from, after the indices: Ok(Self { .. })
Chunk_of(h, verts, is) ==
    IF ~is.res.ok THEN is
    ELSE [rd |-> is.rd,
          res |-> Ok([max_error |-> h.max_error, min_y |-> h.min_y, max_y |-> h.max_y,
                      vertices |-> verts, indices |-> is.res.v])]

\* Chunk::read_from, after the vertices: the loop over the indices
Chunk_indices(h, vs) ==
    IF ~vs.res.ok THEN vs
    ELSE Chunk_of(h, vs.res.v, read_indices(vs.rd, h.n_indices, <<>>))

\* Chunk::read_from, after the header: the loop over the vertices
Chunk_vertices(h) ==
    IF ~h.res.ok THEN h
    ELSE Chunk_indices(h.res.v, read_vertices(h.rd, h.res.v.n_verts, <<>>))

\* Chunk::read_from, after the seek
Chunk_header(sk) ==
    IF sk.res # "ok" THEN [rd |-> sk.rd, res |-> Err("Unable to seek to chunk")]
    ELSE Chunk_vertices(ChunkHeader_read_from(sk.rd))

\* Chunk::read_from(reader, offset)
Chunk_read_from(rd, offset) == Chunk_header(seek_start(rd, offset))

\* Tile { chunk, position: (row, col), level, bbox: None }
NewTile(chunk, row, col, level) ==
    [chunk |-> chunk, position |-> <<row, col>>, level |-> level, bbox |-> None]

\* a plausible slip: the columns are the outer loop
next_node_colmajor(lp) ==
    LET n == 2 ^ lp.level IN
    IF lp.row + 1 < n THEN [lp EXCEPT !.row = @ + 1]
    ELSE IF lp.col + 1 < n THEN [lp EXCEPT !.col = @ + 1, !.row = 0]
    ELSE [level |-> lp.level + 1, row |-> 0, col |-> 0]

\* for level in 0..depth { for row in 0..n { for col in 0..n { .. } } }:
\* the counters of the iteration after (level, row, col)
next_node(lp) ==
    LET n == 2 ^ lp.level IN
    IF lp.col + 1 < n THEN [lp EXCEPT !.col = @ + 1]
    ELSE IF lp.row + 1 < n THEN [lp EXCEPT !.row = @ + 1, !.col = 0]
    ELSE [level |-> lp.level + 1, row |-> 0, col |-> 0]

\* Cell { position, depth, lod, color_tqt, normal_tqt, worldly_width: None }
NewCell(c, d, lod) ==
    [position |-> c.position, depth |-> d, lod |-> lod, color_tqt |-> c.color_tqt,
     normal_tqt |-> c.normal_tqt, worldly_width |-> None]

(***************************************************************************)
(* texture_quadtree.rs: the texture decoder.  A PNG image is kept as the   *)
(* three things the decoder's caller observes: the signature and image     *)
(* header that read_info needs (one signature byte, the width, the         *)
(* height), and the width * height RGB pixels that next_frame fills the    *)
(* output buffer with.                                                     *)
(***************************************************************************)
\* const MAGIC: u32 = 0x00545154
TQT_MAGIC == 5525844

\* const VERSION: u32 = 1
TQT_VERSION == 1

\* the first byte of the PNG signature
PNG_SIGNATURE == 137

\* png_reader.next_frame(image.as_mut_slice()), then the size check
Tile_frame(rd, w, h, tile_size) ==
    IF Len(rd.buf) - rd.pos < w * h * 3
    THEN [rd |-> [rd EXCEPT !.pos = Max(@, Len(rd.buf))], res |-> Err("Unable to read tile")]
    ELSE IF w # tile_size \/ h # tile_size
    THEN [rd |-> [rd EXCEPT !.pos = @ + w * h * 3], res |-> Err("Invalid tile size??")]
    ELSE [rd |-> [rd EXCEPT !.pos = @ + w * h * 3],
          res |-> Ok([image |-> SubSeq(rd.buf, rd.pos + 1, rd.pos + w * h * 3)])]

\* Tile::read_from, after the seek: png::Decoder::new(reader).read_info()
Tile_info(sk, tile_size) ==
    IF sk.res # "ok" THEN [rd |-> sk.rd, res |-> Err("Unable to seek to tile")]
    ELSE IF Len(sk.rd.buf) - sk.rd.pos < 3 \/ sk.rd.buf[sk.rd.pos + 1] # PNG_SIGNATURE
    THEN [rd |-> [sk.rd EXCEPT !.pos = Max(@, Min(@ + 3, Len(sk.rd.buf)))],
          res |-> Err("Unable to read png")]
    ELSE Tile_frame([sk.rd EXCEPT !.pos = @ + 3],
                    sk.rd.buf[sk.rd.pos + 2], sk.rd.buf[sk.rd.pos + 3], tile_size)

\* a plausible slip: the result of the seek is dropped
Tile_read_from_unchecked_seek(rd, tile_size, offset) ==
    Tile_info([rd |-> seek_start(rd, offset).rd, res |-> "ok"], tile_size)

\* texture_quadtree::Tile::read_from(reader, tile_size, offset)
Tile_read_from(rd, tile_size, offset) == Tile_info(seek_start(rd, offset), tile_size)

\* Ok(Self { magic, version, depth, tile_size })
TqtHeader_of(r) ==
    IF ~r.res.ok THEN r
    ELSE [rd |-> r.rd,
          res |-> Ok([magic |-> r.res.v[1], version |-> r.res.v[2],
                      depth |-> r.res.v[3], tile_size |-> r.res.v[4]])]

\* texture_quadtree::Header::read_from
TqtHeader_read_from(rd) ==
    TqtHeader_of(read_fields(rd,
        << <<"u32", "Unable to read magic no.">>,
           <<"u32", "Unable to read version no.">>,
           <<"u32", "Unable to read depth">>,
           <<"u32", "Unable to read tile size">> >>, <<>>))

\* a plausible slip: the version is checked before the magic number
tqt_check_header_version_first(hdr) ==
    IF hdr.version # TQT_VERSION THEN Err("Invalid version no.")
    ELSE IF hdr.magic # TQT_MAGIC THEN Err("Invalid magic no.")
    ELSE Ok(hdr.depth)

\* TexturedQuadTree::new, the two checks of the header (lines 117-123)
tqt_check_header(hdr) ==
    IF hdr.magic # TQT_MAGIC THEN Err("Invalid magic no.")
    ELSE IF hdr.version # TQT_VERSION THEN Err("Invalid version no.")
    ELSE Ok(hdr.depth)

\* TexturedQuadTree { lod, depth, tile_size }
NewTqt(lod, hdr) == [lod |-> lod, depth |-> hdr.depth, tile_size |-> hdr.tile_size]

RECURSIVE interlace_alpha(_)
\* image.chunks_exact(3).map(|chunk| chunk.iter().chain(&[255])).flatten()
interlace_alpha(image) ==
    IF Len(image) < 3 THEN <<>>
    ELSE <<image[1], image[2], image[3], 255>> \o interlace_alpha(SubSeq(image, 4, Len(image)))

(***************************************************************************)
(* Cell::new, one action per step.  `call` holds the arguments; the        *)
(* decoder ends at pc = "return" with `result` set.                        *)
(***************************************************************************)
NoResult == [none |-> TRUE]

\* Map::new is not running
NoMap == [pc |-> "idle"]

LoadIdle ==
    /\ fs = <<>>
    /\ call = [fn |-> "none"]
    /\ pc = "idle"
    /\ header = None
    /\ offsets = NewOffsets(0)
    /\ tiles = <<>>
    /\ loop = [i |-> 0]
    /\ result = NoResult
    /\ opened = <<>>

\* `return Err(..)`, a `?` that fails, or a panic: the locals are dropped
Return(r) ==
    /\ result' = r
    /\ pc' = "return"

\* File::open(path) and BufReader::new(file)
CellOpen ==
    /\ pc = "cell_open"
    /\ opened' = Append(opened, call.path)
    /\ IF fs[call.path] = Missing
       THEN /\ Return(Err("Unable to open cell file"))
            /\ UNCHANGED reader
       ELSE /\ reader' = NewReader(fs[call.path])
            /\ pc' = "cell_header"
            /\ UNCHANGED result
    /\ UNCHANGED <<treeVars, callVars, geoVars, map, fs, call, header, offsets, tiles, loop>>

\* CellHeader::read_from(&mut reader)?
CellReadHeader ==
    /\ pc = "cell_header"
    /\ LET r == CellHeader_read_from(reader) IN
       /\ reader' = r.rd
       /\ IF r.res.ok
          THEN /\ header' = Some(r.res.v)
               /\ pc' = "cell_check"
               /\ UNCHANGED result
          ELSE /\ Return(r.res)
               /\ UNCHANGED header
    /\ UNCHANGED <<treeVars, callVars, geoVars, map, opened, fs, call, offsets, tiles, loop>>

\* the four checks, then n_tiles = full_size(depth) and vec![0; n_tiles]
CellCheckHeader ==
    /\ pc = "cell_check"
    /\ LET c == cell_check_header(header[1], call.cell_width) IN
       IF c.ok
       THEN /\ offsets' = NewOffsets(full_size(header[1].depth))
            /\ loop' = [i |-> 0]
            /\ pc' = "cell_offsets"
            /\ UNCHANGED result
       ELSE /\ Return(c)
            /\ UNCHANGED <<offsets, loop>>
    /\ UNCHANGED <<treeVars, callVars, geoVars, map, opened, reader, fs, call, header, tiles>>

\* read_value(&mut reader, &mut offsets[i], "Unable to read offset")?
CellReadOffset ==
    /\ pc = "cell_offsets"
    /\ loop.i < offsets.n
    /\ LET r == read_value(reader, "u64", 0, "Unable to read offset") IN
       /\ reader' = r.rd
       /\ IF r.res = "ok"
          THEN /\ offsets' = [offsets EXCEPT !.vals = Append(@, r.into)]
               /\ loop' = [i |-> loop.i + 1]
               /\ UNCHANGED <<pc, result>>
          ELSE /\ Return(Err(r.res))
               /\ UNCHANGED <<offsets, loop>>
    /\ UNCHANGED <<treeVars, callVars, geoVars, map, opened, fs, call, header, tiles>>

\* QuadTree::read_from(&mut reader, depth, &offsets) is entered
CellReadFrom ==
    /\ pc = "cell_offsets"
    /\ loop.i = offsets.n
    /\ tiles' = <<>>
    /\ loop' = [level |-> 0, row |-> 0, col |-> 0]
    /\ pc' = "cell_tiles"
    /\ UNCHANGED <<treeVars, callVars, geoVars, map, opened, reader, fs, call, header, offsets, result>>

\* one iteration of the loops of QuadTree<Tile>::read_from
CellReadTile ==
    /\ pc = "cell_tiles"
    /\ loop.level < header[1].depth
    /\ LET off == OffsetAt(offsets, node_index(loop.level, loop.row, loop.col)) IN
       IF ~off.ok
       THEN /\ Return(off)
            /\ UNCHANGED <<reader, tiles, loop>>
       ELSE LET r == Chunk_read_from(reader, off.v) IN
            /\ reader' = r.rd
            /\ IF r.res.ok
               THEN /\ tiles' = Append(tiles, NewTile(r.res.v, loop.row, loop.col, loop.level))
                    /\ loop' = next_node(loop)
                    /\ UNCHANGED <<pc, result>>
               ELSE /\ Return(r.res)
                    /\ UNCHANGED <<tiles, loop>>
    /\ UNCHANGED <<treeVars, callVars, geoVars, map, opened, fs, call, header, offsets>>

\* Ok(QuadTree::build_complete_tree(tiles, depth)) and Ok(Self { .. })
CellBuild ==
    /\ pc = "cell_tiles"
    /\ loop.level = header[1].depth
    /\ LET lod == build_complete_tree(tiles, header[1].depth) IN
       IF "tag" \in DOMAIN lod
       THEN Return(Ok(NewCell(call, header[1].depth, lod)))
       ELSE Return(lod)
    /\ UNCHANGED <<treeVars, callVars, geoVars, map, opened, reader, fs, call, header, offsets, tiles, loop>>

CellNext ==
    \/ CellOpen
    \/ CellReadHeader
    \/ CellCheckHeader
    \/ CellReadOffset
    \/ CellReadFrom
    \/ CellReadTile
    \/ CellBuild

(***************************************************************************)
(* TexturedQuadTree::new, one action per step.                             *)
(***************************************************************************)
\* File::open(path) and BufReader::new(file)
TqtOpen ==
    /\ pc = "tqt_open"
    /\ opened' = Append(opened, call.path)
    /\ IF fs[call.path] = Missing
       THEN /\ Return(Err("Error while opening texture file"))
            /\ UNCHANGED reader
       ELSE /\ reader' = NewReader(fs[call.path])
            /\ pc' = "tqt_header"
            /\ UNCHANGED result
    /\ UNCHANGED <<treeVars, callVars, geoVars, map, fs, call, header, offsets, tiles, loop>>

\* Header::read_from(&mut reader)?
TqtReadHeader ==
    /\ pc = "tqt_header"
    /\ LET r == TqtHeader_read_from(reader) IN
       /\ reader' = r.rd
       /\ IF r.res.ok
          THEN /\ header' = Some(r.res.v)
               /\ pc' = "tqt_check"
               /\ UNCHANGED result
          ELSE /\ Return(r.res)
               /\ UNCHANGED header
    /\ UNCHANGED <<treeVars, callVars, geoVars, map, opened, fs, call, offsets, tiles, loop>>

\* the two checks, then n_tiles = full_size(depth) and vec![0; n_tiles];
\* the depth is not checked, and 4u32.pow(depth) overflows from depth 16 on:
\* a build with overflow checks panics there, a build without wraps to 0
TqtCheckHeader ==
    /\ pc = "tqt_check"
    /\ IF ~tqt_check_header(header[1]).ok
       THEN /\ Return(tqt_check_header(header[1]))
            /\ UNCHANGED <<offsets, loop>>
       ELSE \/ /\ offsets' = NewOffsets(full_size(header[1].depth))
               /\ loop' = [i |-> 0]
               /\ pc' = "tqt_offsets"
               /\ UNCHANGED result
            \/ /\ header[1].depth >= 16
               /\ Return(Panic("attempt to multiply with overflow"))
               /\ UNCHANGED <<offsets, loop>>
    /\ UNCHANGED <<treeVars, callVars, geoVars, map, opened, reader, fs, call, header, tiles>>

\* read_value(&mut reader, &mut offsets[i], "Unable to read offset")?
TqtReadOffset ==
    /\ pc = "tqt_offsets"
    /\ loop.i < offsets.n
    /\ LET r == read_value(reader, "u64", 0, "Unable to read offset") IN
       /\ reader' = r.rd
       /\ IF r.res = "ok"
          THEN /\ offsets' = [offsets EXCEPT !.vals = Append(@, r.into)]
               /\ loop' = [i |-> loop.i + 1]
               /\ UNCHANGED <<pc, result>>
          ELSE /\ Return(Err(r.res))
               /\ UNCHANGED <<offsets, loop>>
    /\ UNCHANGED <<treeVars, callVars, geoVars, map, opened, fs, call, header, tiles>>

\* QuadTree::<Tile>::read_from(&mut reader, depth, tile_size, &offsets) is entered
TqtReadFrom ==
    /\ pc = "tqt_offsets"
    /\ loop.i = offsets.n
    /\ tiles' = <<>>
    /\ loop' = [level |-> 0, row |-> 0, col |-> 0]
    /\ pc' = "tqt_tiles"
    /\ UNCHANGED <<treeVars, callVars, geoVars, map, opened, reader, fs, call, header, offsets, result>>

\* one iteration of the loops of QuadTree<texture_quadtree::Tile>::read_from
TqtReadTile ==
    /\ pc = "tqt_tiles"
    /\ loop.level < header[1].depth
    /\ LET off == OffsetAt(offsets, node_index(loop.level, loop.row, loop.col)) IN
       IF ~off.ok
       THEN /\ Return(off)
            /\ UNCHANGED <<reader, tiles, loop>>
       ELSE LET r == Tile_read_from(reader, header[1].tile_size, off.v) IN
            /\ reader' = r.rd
            /\ IF r.res.ok
               THEN /\ tiles' = Append(tiles, r.res.v)
                    /\ loop' = next_node(loop)
                    /\ UNCHANGED <<pc, result>>
               ELSE /\ Return(r.res)
                    /\ UNCHANGED <<tiles, loop>>
    /\ UNCHANGED <<treeVars, callVars, geoVars, map, opened, fs, call, header, offsets>>

\* Ok(QuadTree::build_complete_tree(tiles, depth)) and Ok(Self { .. })
TqtBuild ==
    /\ pc = "tqt_tiles"
    /\ loop.level = header[1].depth
    /\ LET lod == build_complete_tree(tiles, header[1].depth) IN
       IF "tag" \in DOMAIN lod
       THEN Return(Ok(NewTqt(lod, header[1])))
       ELSE Return(lod)
    /\ UNCHANGED <<treeVars, callVars, geoVars, map, opened, reader, fs, call, header, offsets, tiles, loop>>

TqtNext ==
    \/ TqtOpen
    \/ TqtReadHeader
    \/ TqtCheckHeader
    \/ TqtReadOffset
    \/ TqtReadFrom
    \/ TqtReadTile
    \/ TqtBuild

(***************************************************************************)
(* map.rs: Map::new.  map.json is kept as the MapInfo it parses to (or as  *)
(* a file that does not parse); lengths and scales are whole numbers.      *)
(* Map::new calls TexturedQuadTree::new and Cell::new for each grid cell:  *)
(* a call sets `call` and starts the decoder, and the matching Return      *)
(* action takes `result` once the decoder stands at "return".              *)
(***************************************************************************)
\* map_dir.join("map.json")
MapJson == <<"map.json">>

\* map_dir.join(grid_name).join(file)
MapPath(grid_name, file) == <<grid_name, file>>

\* Map::new has been called: its locals before the first statement
MapStart ==
    [pc |-> "map_open", info |-> None, abstract_size |-> <<0, 0>>, cells |-> <<>>,
     cell_row |-> <<>>, row |-> 0, col |-> 0, color_tqt |-> None, normal_tqt |-> None,
     new_cells |-> <<>>, new_row |-> <<>>, placed |-> <<>>, result |-> NoResult]

\* Map::new returns r (or unwinds with the panic r)
MapReturn(m, r) == [m EXCEPT !.pc = "return", !.result = r]

\* the checks of map.json (lines 68-80); abstract_size on success
map_check_info(info) ==
    IF info.cell_width = 0
    THEN Panic("attempt to calculate the remainder with a divisor of zero")
    ELSE IF info.width % info.cell_width # 0 \/ info.height % info.cell_width # 0
    THEN Err("width and height have to be a multiple of cell_size")
    ELSE IF (info.width \div info.cell_width) * (info.height \div info.cell_width)
               # Len(info.grid)
    THEN Err("No. of cells does not match the cells in grid")
    ELSE Ok(<<info.width \div info.cell_width, info.height \div info.cell_width>>)

RECURSIVE place_loop(_)
\* the head of the loop over the rows of map.cells in the placement pass
\* (lines 125-133): a row whose cells are all placed is pushed
place_loop(m) ==
    IF Len(m.new_cells) < Len(m.cells) /\ Len(m.new_row) = Len(m.cells[Len(m.new_cells) + 1])
    THEN place_loop([m EXCEPT !.new_cells = Append(@, m.new_row), !.new_row = <<>>])
    ELSE m

RECURSIVE map_loop(_)
\* the heads of the loops over row and col (lines 83-85, 112): where the
\* next iteration starts, or the placement pass when the rows are done
map_loop(m) ==
    IF m.row >= m.abstract_size[1] THEN place_loop([m EXCEPT !.pc = "place"])
    ELSE IF m.col >= m.abstract_size[2]
    THEN map_loop([m EXCEPT !.cells = Append(@, m.cell_row), !.cell_row = <<>>,
                            !.row = @ + 1, !.col = 0])
    ELSE [m EXCEPT !.pc = "color"]

\* after the checks of map.json: return the failure or enter the loops
map_enter(m, info, c) ==
    IF ~c.ok THEN MapReturn(m, c)
    ELSE map_loop([m EXCEPT !.info = Some(info), !.abstract_size = c.v])

\* &info.grid[row * abstract_size.1 + col]
GridName(m) == m.info[1].grid[m.row * m.abstract_size[2] + m.col + 1]

\* Map::world_cell_width
world_cell_width(info) == info.cell_width * info.h_scale

\* Cell::is_in_map
Cell_is_in_map(cell) == cell.worldly_width # None

\* Tile::is_in_map
Tile_is_in_map(tile) == tile.bbox # None

\* a plausible slip: the row along x and the column along z
corner_world_position_rowx(cell) ==
    IF cell.worldly_width = None THEN Panic("Put the cell in a map first!")
    ELSE Ok(<<cell.worldly_width[1] * cell.position[1], 0,
              cell.worldly_width[1] * cell.position[2]>>)

\* Cell::corner_world_position
corner_world_position(cell) ==
    IF cell.worldly_width = None THEN Panic("Put the cell in a map first!")
    ELSE Ok(<<cell.worldly_width[1] * cell.position[2], 0,
              cell.worldly_width[1] * cell.position[1]>>)

\* no AABB, camera or frustum has been made
NoBox == <<>>

NoCamera == <<>>

NoFrustum == <<>>

\* no cell is being placed
NoCell == <<>>

\* no event loop is running
NoApp == <<>>

\* AABB::new(min, max)
AABB_new(min, max) == [min |-> min, max |-> max]

\* a plausible slip: a tile that has a box is moved from where it stands
put_in_map_in_cell_moved(tile, cell_world_pos, info) ==
    LET from == IF tile.bbox = None THEN <<0, 0, 0>> ELSE tile.bbox[1].min
        tile_nw_pos == <<from[1] + cell_world_pos[1] + info.h_scale * tile.position[2],
                         cell_world_pos[2] + info.base_elevation
                             + info.v_scale * tile.chunk.min_y,
                         from[3] + cell_world_pos[3] + info.h_scale * tile.position[1]>>
        tile_worldly_width == info.h_scale * (info.cell_width \div (2 ^ tile.level))
        tile_se_pos == <<tile_nw_pos[1] + tile_worldly_width,
                         info.base_elevation + info.v_scale * tile.chunk.max_y,
                         tile_nw_pos[3] + tile_worldly_width>>
    IN  [tile EXCEPT !.bbox = Some(AABB_new(tile_nw_pos, tile_se_pos))]

\* a plausible slip: the width of a tile is that of the cell at every level
put_in_map_in_cell_wide(tile, cell_world_pos, info) ==
    LET tile_nw_pos == <<cell_world_pos[1] + info.h_scale * tile.position[2],
                         cell_world_pos[2] + info.base_elevation
                             + info.v_scale * tile.chunk.min_y,
                         cell_world_pos[3] + info.h_scale * tile.position[1]>>
        tile_worldly_width == info.h_scale * info.cell_width
        tile_se_pos == <<tile_nw_pos[1] + tile_worldly_width,
                         info.base_elevation + info.v_scale * tile.chunk.max_y,
                         tile_nw_pos[3] + tile_worldly_width>>
    IN  [tile EXCEPT !.bbox = Some(AABB_new(tile_nw_pos, tile_se_pos))]

\* Tile::put_in_map_in_cell
put_in_map_in_cell(tile, cell_world_pos, info) ==
    LET tile_nw_pos == <<cell_world_pos[1] + info.h_scale * tile.position[2],
                         cell_world_pos[2] + info.base_elevation
                             + info.v_scale * tile.chunk.min_y,
                         cell_world_pos[3] + info.h_scale * tile.position[1]>>
        tile_worldly_width == info.h_scale * (info.cell_width \div (2 ^ tile.level))
        tile_se_pos == <<tile_nw_pos[1] + tile_worldly_width,
                         info.base_elevation + info.v_scale * tile.chunk.max_y,
                         tile_nw_pos[3] + tile_worldly_width>>
    IN  [tile EXCEPT !.bbox = Some(AABB_new(tile_nw_pos, tile_se_pos))]

RECURSIVE put_tiles_in_map(_, _, _)
\* for tile in self.lod.mut_view() { tile.put_in_map_in_cell(pos, map) }:
\* every node of the complete tree, the node before its children
put_tiles_in_map(t, pos, info) ==
    IF t.tag = "Leaf" THEN Leaf(put_in_map_in_cell(t.value, pos, info))
    ELSE Node(put_in_map_in_cell(t.value, pos, info),
              put_tiles_in_map(t.nw, pos, info), put_tiles_in_map(t.ne, pos, info),
              put_tiles_in_map(t.se, pos, info), put_tiles_in_map(t.sw, pos, info))

\* Cell::put_in_map, after worldly_width is set
put_in_map_tiles(cell, info) ==
    [cell EXCEPT !.lod = put_tiles_in_map(@, corner_world_position(cell).v, info)]

\* Cell::put_in_map
put_in_map(cell, info) ==
    put_in_map_tiles([cell EXCEPT !.worldly_width = Some(world_cell_width(info))], info)

RECURSIVE interlace_tiles(_)
\* for image in tree.lod.mut_view() { interlace_alpha(&mut image.image) }
interlace_tiles(t) ==
    IF t.tag = "Leaf" THEN Leaf([image |-> interlace_alpha(t.value.image)])
    ELSE Node([image |-> interlace_alpha(t.value.image)],
              interlace_tiles(t.nw), interlace_tiles(t.ne),
              interlace_tiles(t.se), interlace_tiles(t.sw))

\* a plausible slip: the clone is pushed without being put in the map
place_cell_unplaced(m, cell) ==
    [m EXCEPT !.new_row = Append(@, cell), !.placed = Append(@, cell.position)]

\* let mut new_cell = (*cell).clone(); new_cell.put_in_map(&map);
\* row.push(new_cell) (lines 128-130); `placed` logs the calls of put_in_map
place_cell(m, cell) ==
    [m EXCEPT !.new_row = Append(@, put_in_map(cell, m.info[1])),
              !.placed = Append(@, cell.position)]

\* Map { info, abstract_size, world_size, cells, objects: vec![] } after
\* map.cells = cells, the placed clones (lines 115-121, 135)
NewMap(m) ==
    [info |-> m.info[1], abstract_size |-> m.abstract_size,
     world_size |-> <<m.info[1].width, m.info[1].height>>,
     cells |-> m.new_cells,
     objects |-> <<>>]

\* a call of a decoder: its arguments, and fresh locals
StartCall(c, at) ==
    /\ call' = c
    /\ pc' = at
    /\ reader' = NoReader
    /\ header' = None
    /\ offsets' = NewOffsets(0)
    /\ tiles' = <<>>
    /\ loop' = [i |-> 0]
    /\ result' = NoResult

\* the decoder called has returned
Returned(at) ==
    /\ map.pc = at
    /\ pc = "return"
    /\ pc' = "idle"
    /\ UNCHANGED <<treeVars, callVars, geoVars, reader, fs, call, header, offsets, tiles, loop,
                   result, opened>>

\* no decoder is called or left
NoCall == UNCHANGED <<treeVars, callVars, geoVars, reader, fs, call, pc, header, offsets, tiles,
                      loop, result>>

\* File::open(map.json), serde_json::from_reader, the checks of the sizes
MapOpen ==
    /\ map.pc = "map_open"
    /\ opened' = Append(opened, MapJson)
    /\ map' = CASE fs[MapJson].kind = "missing" -> MapReturn(map, Err("Unable to open map.json"))
                [] fs[MapJson].kind = "invalid" -> MapReturn(map, Err("Invalid map.json file"))
                [] OTHER -> map_enter(map, fs[MapJson].info, map_check_info(fs[MapJson].info))
    /\ NoCall

\* let color_tqt = if info.has_color { TexturedQuadTree::new(..)? .. } else { None }
MapColor ==
    /\ map.pc = "color"
    /\ IF map.info[1].has_color
       THEN /\ StartCall([fn |-> "TexturedQuadTree::new",
                          path |-> MapPath(GridName(map), "color.tqt")], "tqt_open")
            /\ map' = [map EXCEPT !.pc = "color_wait"]
            /\ UNCHANGED <<treeVars, callVars, geoVars, fs, opened>>
       ELSE /\ map' = [map EXCEPT !.pc = "normal", !.color_tqt = None]
            /\ NoCall
            /\ UNCHANGED opened

\* the ? on the color texture, then interlace_alpha on every image
MapColorReturn ==
    /\ Returned("color_wait")
    /\ map' = IF result.ok
              THEN [map EXCEPT !.pc = "normal",
                               !.color_tqt = Some([result.v EXCEPT !.lod = interlace_tiles(@)])]
              ELSE MapReturn(map, result)

\* let normal_tqt = if info.has_normals { Some(TexturedQuadTree::new(..)?) } else { None }
MapNormal ==
    /\ map.pc = "normal"
    /\ IF map.info[1].has_normals
       THEN /\ StartCall([fn |-> "TexturedQuadTree::new",
                          path |-> MapPath(GridName(map), "norm.tqt")], "tqt_open")
            /\ map' = [map EXCEPT !.pc = "normal_wait"]
            /\ UNCHANGED <<treeVars, callVars, geoVars, fs, opened>>
       ELSE /\ map' = [map EXCEPT !.pc = "cell", !.normal_tqt = None]
            /\ NoCall
            /\ UNCHANGED opened

\* the ? on the normal texture
MapNormalReturn ==
    /\ Returned("normal_wait")
    /\ map' = IF result.ok
              THEN [map EXCEPT !.pc = "cell", !.normal_tqt = Some(result.v)]
              ELSE MapReturn(map, result)

\* Cell::new(cell_dir.join("hf.cell"), (row, col), color_tqt, normal_tqt, cell_width)
MapCell ==
    /\ map.pc = "cell"
    /\ StartCall([fn |-> "Cell::new", path |-> MapPath(GridName(map), "hf.cell"),
                  position |-> <<map.row, map.col>>, color_tqt |-> map.color_tqt,
                  normal_tqt |-> map.normal_tqt, cell_width |-> map.info[1].cell_width],
                 "cell_open")
    /\ map' = [map EXCEPT !.pc = "cell_wait"]
    /\ UNCHANGED <<treeVars, callVars, geoVars, fs, opened>>

\* the ? on the cell, cell_row.push(..), and the loop heads
MapCellReturn ==
    /\ Returned("cell_wait")
    /\ map' = IF result.ok
              THEN map_loop([map EXCEPT !.cell_row = Append(@, result.v), !.col = @ + 1,
                                        !.color_tqt = None, !.normal_tqt = None])
              ELSE MapReturn(map, result)

\* one iteration of the placement pass: the next cell of map.cells is
\* cloned, put in the map and pushed
MapPlace ==
    /\ map.pc = "place"
    /\ Len(map.new_cells) < Len(map.cells)
    /\ map' = place_loop(place_cell(map,
                  map.cells[Len(map.new_cells) + 1][Len(map.new_row) + 1]))
    /\ NoCall
    /\ UNCHANGED opened

\* map.cells = cells; Ok(map)
MapDone ==
    /\ map.pc = "place"
    /\ Len(map.new_cells) = Len(map.cells)
    /\ map' = [MapReturn(map, Ok(NewMap(map))) EXCEPT !.cells = <<>>, !.new_cells = <<>>]
    /\ NoCall
    /\ UNCHANGED opened

MapNext ==
    \/ MapOpen
    \/ MapColor
    \/ MapColorReturn
    \/ MapNormal
    \/ MapNormalReturn
    \/ MapCell
    \/ MapCellReturn
    \/ MapPlace
    \/ MapDone
    \/ TqtNext
    \/ CellNext

(***************************************************************************)
(* Input files.  A cell file is written as the format lays it out: the     *)
(* 16-byte header, full node count many 64-bit offsets, then one chunk     *)
(* record per node.  The files the decoders are run on are well-formed     *)
(* files, files with each header field wrong, files whose offset table     *)
(* names a wrong place, and every prefix of a well-formed file.            *)
(***************************************************************************)
RECURSIVE Flatten(_)
\* the concatenation of a sequence of sequences
Flatten(ss) == IF ss = <<>> THEN <<>> ELSE Head(ss) \o Flatten(Tail(ss))

RECURSIVE NodeCount(_)
\* the nodes of a complete quadtree with d levels, counted level by level
NodeCount(d) == IF d = 0 THEN 0 ELSE NodeCount(d - 1) + 4 ^ (d - 1)

\* the n little-endian bytes of 0 <= v < 2^31
ToLe(v, n) == [k \in 1..n |-> IF k > 4 THEN 0 ELSE (v \div (256 ^ (k - 1))) % 256]

\* the two bytes of a signed 16-bit value
I16Le(v) == ToLe(IF v < 0 THEN v + 65536 ELSE v, 2)

\* the chunk stored for node k: its fields tell the nodes apart
ChunkOf(k) ==
    [max_error |-> 1000 + k, min_y |-> -(k + 1), max_y |-> k + 2,
     vertices |-> [j \in 1..((k + 1) % 2) |->
                      [position |-> <<k, -(k + j), j>>, morph_delta |-> -1]],
     indices |-> [j \in 1..(k % 3) |-> 40000 + k + j]]

\* the bytes of a chunk record
ChunkBytes(c) ==
    ToLe(c.max_error, 4) \o ToLe(Len(c.vertices), 4) \o ToLe(Len(c.indices), 4)
    \o I16Le(c.min_y) \o I16Le(c.max_y)
    \o Flatten([j \in 1..Len(c.vertices) |->
          I16Le(c.vertices[j].position[1]) \o I16Le(c.vertices[j].position[2])
          \o I16Le(c.vertices[j].position[3]) \o I16Le(c.vertices[j].morph_delta)])
    \o Flatten([j \in 1..Len(c.indices) |-> ToLe(c.indices[j], 2)])

\* the node whose chunk is stored in slot s (from 0) of the body of n chunks:
\* in node order, or in the reverse order
StoredAt(layout, n, s) == IF layout = "reversed" THEN n - 1 - s ELSE s

RECURSIVE SlotStart(_, _, _, _)
\* the file offset at which slot s of the body starts
SlotStart(layout, n, s, base) ==
    IF s = 0 THEN base
    ELSE SlotStart(layout, n, s - 1, base)
         + Len(ChunkBytes(ChunkOf(StoredAt(layout, n, s - 1))))

\* the file offset of node k's chunk (StoredAt is its own inverse)
ChunkOffset(layout, n, k, base) == SlotStart(layout, n, StoredAt(layout, n, k), base)

\* the 8 bytes of an offset above i64::MAX
HugeOffset == <<0, 0, 0, 0, 0, 0, 0, 128>>

\* one entry of the offset table; entry fault.at may name a wrong place
OffsetEntry(layout, n, k, base, fault) ==
    IF fault.kind = "none" \/ fault.at # k THEN ToLe(ChunkOffset(layout, n, k, base), 8)
    ELSE IF fault.kind = "huge" THEN HugeOffset
    ELSE IF fault.kind = "past" THEN ToLe(SlotStart(layout, n, n, base) + 5, 8)
    ELSE ToLe(ChunkOffset(layout, n, (k + 1) % n, base), 8)

NoFault == [kind |-> "none", at |-> 0]

\* the offset table and the chunks of a file whose header takes `base` bytes
FileBody(d, layout, fault, base) ==
    LET n == NodeCount(d)
        start == base + 8 * n
    IN  Flatten([k \in 1..n |-> OffsetEntry(layout, n, k - 1, start, fault)])
        \o Flatten([s \in 1..n |-> ChunkBytes(ChunkOf(StoredAt(layout, n, s - 1)))])

\* a cell file: the header says hd.depth, the body holds a tree of depth d
CellFile(hd, d, layout, fault) ==
    ToLe(hd.magic, 4) \o ToLe(hd.compressed, 4) \o ToLe(hd.size, 4) \o ToLe(hd.depth, 4)
    \o FileBody(d, layout, fault, 16)

GoodCellHeader(d, cw) == [magic |-> CELL_MAGIC, compressed |-> 0, size |-> cw, depth |-> d]

\* the headers tried: each field right or wrong, each depth around the limits
CellHeaders(cw) ==
    [magic : {CELL_MAGIC, CELL_MAGIC + 1}, compressed : {0, 1}, size : {cw, cw + 1},
     depth : (0..MaxCellDepth) \cup {MAX_DEPTH, MAX_DEPTH + 1}]

\* the depth of the body written after a header
BodyDepth(hd) == IF hd.depth >= 1 /\ hd.depth <= MaxCellDepth THEN hd.depth ELSE 1

Prefixes(f, upto) == {SubSeq(f, 1, n) : n \in 0..Min(upto, Len(f))}

Faults(d) ==
    {NoFault} \cup [kind : {"huge", "past", "alias"}, at : 0..(NodeCount(d) - 1)]

\* the cell files Cell::new is run on
CellFiles(cw) ==
    LET whole == {CellFile(hd, BodyDepth(hd), "canonical", NoFault) : hd \in CellHeaders(cw)}
    IN  whole
        \cup UNION {Prefixes(f, 16) : f \in whole}
        \cup UNION {{CellFile(GoodCellHeader(d, cw), d, layout, fault) :
                        layout \in {"canonical", "reversed"}, fault \in Faults(d)} :
                    d \in 1..MaxCellDepth}
        \cup UNION {LET f == CellFile(GoodCellHeader(d, cw), d, "canonical", NoFault)
                    IN  Prefixes(f, Len(f)) : d \in 1..MaxCellDepth}

(***************************************************************************)
(* Texture files and maps.  A texture file is its 16-byte header, the      *)
(* offset table, and one image per node.  A map is a map.json and, for     *)
(* each grid name, a directory with color.tqt, norm.tqt and hf.cell; at    *)
(* most one file of a map is faulty.                                       *)
(***************************************************************************)
\* the image of node k, w x h pixels
PngOf(k, w, h) == <<PNG_SIGNATURE, w, h>> \o [j \in 1..(w * h * 3) |-> (k * 16 + j) % 256]

\* the image stored for node k; the image of node fault.at may be faulty
TqtTileBytes(k, tsz, fault) ==
    IF fault.at # k THEN PngOf(k, tsz, tsz)
    ELSE CASE fault.kind = "badsig" -> <<0>> \o Tail(PngOf(k, tsz, tsz))
           [] fault.kind = "wrongsize" -> PngOf(k, tsz + 1, tsz)
           [] fault.kind = "tall" -> PngOf(k, tsz, tsz + 1)
           [] OTHER -> PngOf(k, tsz, tsz)

RECURSIVE TqtSlotStart(_, _, _, _)
\* the file offset at which the image of node k starts
TqtSlotStart(k, base, tsz, fault) ==
    IF k = 0 THEN base
    ELSE TqtSlotStart(k - 1, base, tsz, fault) + Len(TqtTileBytes(k - 1, tsz, fault))

\* one entry of the offset table
TqtOffsetEntry(k, base, tsz, fault) ==
    IF fault.kind = "huge" /\ fault.at = k THEN HugeOffset
    ELSE ToLe(TqtSlotStart(k, base, tsz, fault), 8)

\* a texture file: the header says hd.depth, the body holds a tree of depth d
TqtFile(hd, d, fault) ==
    ToLe(hd.magic, 4) \o ToLe(hd.version, 4) \o ToLe(hd.depth, 4) \o ToLe(hd.tile_size, 4)
    \o Flatten([k \in 1..NodeCount(d) |->
                  TqtOffsetEntry(k - 1, 16 + 8 * NodeCount(d), hd.tile_size, fault)])
    \o Flatten([k \in 1..NodeCount(d) |-> TqtTileBytes(k - 1, hd.tile_size, fault)])

GoodTqtHeader(d) == [magic |-> TQT_MAGIC, version |-> TQT_VERSION, depth |-> d, tile_size |-> 1]

GoodTqtFile(d) == TqtFile(GoodTqtHeader(d), d, NoFault)

GoodCellFile(d, cw) == CellFile(GoodCellHeader(d, cw), d, "canonical", NoFault)

\* the bytes of a cell file with the min_y and max_y of the chunk record at
\* file offset `at` exchanged
SwapElevations(f, at) ==
    [j \in 1..Len(f) |-> IF j \in {at + 13, at + 14} THEN f[j + 2]
                         ELSE IF j \in {at + 15, at + 16} THEN f[j - 2]
                         ELSE f[j]]

\* a cell file that decodes, whose root chunk says min_y > max_y
InvertedCellFile(d, cw) == SwapElevations(GoodCellFile(d, cw), 16 + 8 * NodeCount(d))

\* a file cut inside its header, inside its offset table, inside its last
\* record, and the empty file
Cuts(f) == {SubSeq(f, 1, n) : n \in {0, 10, 20, Len(f) - 1}}

\* faults at the first and at the last node
NodeFaults(kinds, d) == [kind : kinds, at : {0, NodeCount(d) - 1}]

\* the faulty texture files of a map of depth d
BadTqtFiles(d) ==
    {Missing}
    \cup {TqtFile(hd, d, NoFault) :
             hd \in {[GoodTqtHeader(d) EXCEPT !.magic = @ + 1],
                     [GoodTqtHeader(d) EXCEPT !.version = 2],
                     [GoodTqtHeader(d) EXCEPT !.magic = @ + 1, !.version = 2],
                     [GoodTqtHeader(d) EXCEPT !.depth = 0],
                     [GoodTqtHeader(d) EXCEPT !.depth = 16]}}
    \cup {TqtFile(GoodTqtHeader(d), d, fault) :
             fault \in NodeFaults({"huge", "badsig", "wrongsize", "tall"}, d)}
    \cup Cuts(GoodTqtFile(d))

\* the faulty cell files of a map of depth d
BadCellFiles(d, cw) ==
    {Missing}
    \cup {CellFile(hd, d, "canonical", NoFault) :
             hd \in {[GoodCellHeader(d, cw) EXCEPT !.magic = @ + 1],
                     [GoodCellHeader(d, cw) EXCEPT !.compressed = 1],
                     [GoodCellHeader(d, cw) EXCEPT !.size = @ + 1],
                     [GoodCellHeader(d, cw) EXCEPT !.depth = 0],
                     [GoodCellHeader(d, cw) EXCEPT !.depth = 16]}}
    \cup {CellFile(GoodCellHeader(d, cw), d, "canonical", fault) :
             fault \in NodeFaults({"huge", "past"}, d)}
    \cup Cuts(GoodCellFile(d, cw))

\* the directory names of the grid
CellNames == <<"c0", "c1", "c2", "c3">>

TextureNames == {"color.tqt", "norm.tqt"}

\* the MapInfo of a map of w x h cells of width cw
MapInfoOf(w, h, cw, has_color, has_normals) ==
    [h_scale |-> 2, v_scale |-> 3, base_elevation |-> 10,
     width |-> w * cw, height |-> h * cw, cell_width |-> cw,
     has_color |-> has_color, has_normals |-> has_normals,
     grid |-> SubSeq(CellNames, 1, w * h)]

\* the shapes of the maps: at most MaxMapCells cells
MapShapes == {wh \in (1..MaxMapCells) \X (1..MaxMapCells) : wh[1] * wh[2] <= MaxMapCells}

\* map.json files that fail: absent, unparsable, a width that is no multiple
\* of the cell width, a grid with a name too few, a cell width of 0
BadMapJsons ==
    {[kind |-> "missing"], [kind |-> "invalid"],
     [kind |-> "json", info |-> [MapInfoOf(1, 1, 4, TRUE, TRUE) EXCEPT !.width = 6]],
     [kind |-> "json", info |-> [MapInfoOf(1, 1, 4, TRUE, TRUE) EXCEPT !.height = 6]],
     [kind |-> "json", info |-> [MapInfoOf(1, 2, 4, TRUE, TRUE) EXCEPT !.grid = <<"c0">>]],
     [kind |-> "json", info |-> [MapInfoOf(1, 1, 4, TRUE, TRUE) EXCEPT !.cell_width = 0]]}

\* no file of the map is faulty
NoBadFile == [path |-> <<"none">>, file |-> Missing]

\* one faulty file under one of the cell directories
BadFiles(names, d, cw) ==
    {NoBadFile}
    \cup [path : {MapPath(nm, f) : nm \in names, f \in TextureNames}, file : BadTqtFiles(d)]
    \cup [path : {MapPath(nm, "hf.cell") : nm \in names}, file : BadCellFiles(d, cw)]

\* the files of a map directory
MapFs(json, names, d, cw, bad) ==
    [p \in {MapJson} \cup {MapPath(nm, f) : nm \in names, f \in TextureNames \cup {"hf.cell"}} |->
        IF p = MapJson THEN json
        ELSE IF p = bad.path THEN bad.file
        ELSE IF p[2] = "hf.cell" THEN GoodCellFile(d, cw)
        ELSE GoodTqtFile(d)]

\* the names of the first n cell directories
NamesOf(n) == {CellNames[k] : k \in 1..n}

\* the directories of a map of w x h cells whose files have depth d, with
\* the faulty files of `bads`
MapsOf(w, h, d, flags, bads) ==
    {MapFs([kind |-> "json", info |-> MapInfoOf(w, h, 4, flags[1], flags[2])],
           NamesOf(w * h), d, 4, bad) : bad \in bads}

\* maps that load although their data is odd: a root chunk with
\* min_y > max_y, a negative vertical scale
OddMaps ==
    {MapFs([kind |-> "json", info |-> MapInfoOf(1, 1, 4, FALSE, FALSE)], {"c0"}, d, 4,
           [path |-> MapPath("c0", "hf.cell"), file |-> InvertedCellFile(d, 4)]) :
        d \in 1..MaxMapDepth}
    \cup {MapFs([kind |-> "json",
                 info |-> [MapInfoOf(1, 1, 4, FALSE, FALSE) EXCEPT !.v_scale = -3]],
                {"c0"}, 1, 4, NoBadFile)}

\* the map directories Map::new is run on: map.json files that fail; maps
\* of one cell, of every depth, with and without each texture, each file
\* faulty in turn; maps of several cells of depth 1, each file faulty in
\* turn when both textures are used; the odd maps
MapDirs ==
    {MapFs(json, {"c0"}, 1, 4, NoBadFile) : json \in BadMapJsons}
    \cup OddMaps
    \cup UNION {MapsOf(1, 1, d, flags, BadFiles(NamesOf(1), d, 4)) :
                   d \in 1..MaxMapDepth, flags \in BOOLEAN \X BOOLEAN}
    \cup UNION {MapsOf(wh[1], wh[2], 1, <<TRUE, TRUE>>, BadFiles(NamesOf(wh[1] * wh[2]), 1, 4)) :
                   wh \in MapShapes}
    \cup UNION {MapsOf(wh[1], wh[2], 1, flags, {NoBadFile}) :
                   wh \in MapShapes, flags \in BOOLEAN \X BOOLEAN}

(***************************************************************************)
(* aabb.rs (and the AABB of geometry.rs, which is the same code): a Point3 *)
(* or Vector3 is <<x, y, z>>; the f64 coordinates are integers here.       *)
(***************************************************************************)
\* the components x, y, z
Axes == 1..3

\* a plausible slip: the test of the z component reads normal.y
get_vertex_p_yz(b, normal) ==
    [i \in Axes |-> IF normal[IF i = 3 THEN 2 ELSE i] >= 0 THEN b.max[i] ELSE b.min[i]]

\* a plausible slip: a zero component of the normal picks min
get_vertex_p_strict(b, normal) ==
    [i \in Axes |-> IF normal[i] > 0 THEN b.max[i] ELSE b.min[i]]

\* AABB::get_vertex_p: p = min, and max on each axis where normal >= 0
get_vertex_p(b, normal) ==
    [i \in Axes |-> IF normal[i] >= 0 THEN b.max[i] ELSE b.min[i]]

\* a plausible slip: the same corner as get_vertex_p
get_vertex_n_of_p(b, normal) ==
    [i \in Axes |-> IF normal[i] >= 0 THEN b.max[i] ELSE b.min[i]]

\* AABB::get_vertex_n: p = max, and min on each axis where normal >= 0
get_vertex_n(b, normal) ==
    [i \in Axes |-> IF normal[i] >= 0 THEN b.min[i] ELSE b.max[i]]

\* AABB::add_pt: if pt < min { min = pt } else if pt > max { max = pt }
add_pt(b, pt) ==
    [min |-> [i \in Axes |-> IF pt[i] < b.min[i] THEN pt[i] ELSE b.min[i]],
     max |-> [i \in Axes |-> IF pt[i] < b.min[i] THEN b.max[i]
                             ELSE IF pt[i] > b.max[i] THEN pt[i] ELSE b.max[i]]]

\* a plausible slip: the maxes are merged with min as well
add_assign_min_only(a, rhs) ==
    [min |-> [i \in Axes |-> Min(a.min[i], rhs.min[i])],
     max |-> [i \in Axes |-> Min(a.max[i], rhs.max[i])]]

\* impl AddAssign for AABB: a += rhs
add_assign(a, rhs) ==
    [min |-> [i \in Axes |-> Min(a.min[i], rhs.min[i])],
     max |-> [i \in Axes |-> Max(a.max[i], rhs.max[i])]]

(***************************************************************************)
(* geometry.rs: Plane and Frustum; camera.rs: Camera.  Vectors have        *)
(* integer components.  normalize keeps the direction of a vector and      *)
(* divides it by the greatest common divisor of its components: a vector   *)
(* along an axis becomes the unit vector, as in the code, and any other    *)
(* vector becomes a positive multiple of the unit vector.  A plane normal  *)
(* that is not along an axis is therefore the code's normal times a        *)
(* positive number, and so is every distance to that plane: its sign, on   *)
(* which Frustum::intersect decides, is the code's.                        *)
(***************************************************************************)
VAdd(a, b) == [i \in Axes |-> a[i] + b[i]]

VSub(a, b) == [i \in Axes |-> a[i] - b[i]]

\* v * k
VScale(v, k) == [i \in Axes |-> v[i] * k]

VNeg(v) == [i \in Axes |-> -v[i]]

\* Vector3::dot
Dot(a, b) == a[1] * b[1] + a[2] * b[2] + a[3] * b[3]

\* Vector3::cross
Cross(a, b) ==
    <<a[2] * b[3] - a[3] * b[2], a[3] * b[1] - a[1] * b[3], a[1] * b[2] - a[2] * b[1]>>

Abs(x) == IF x < 0 THEN -x ELSE x

RECURSIVE Gcd(_, _)
Gcd(a, b) == IF b = 0 THEN a ELSE Gcd(b, a % b)

\* the components of v divided by g
VDiv(v, g) == [i \in Axes |-> IF v[i] < 0 THEN -((-v[i]) \div g) ELSE v[i] \div g]

\* Vector3::normalize, up to a positive factor (see above)
normalize(v) == VDiv(v, Gcd(Gcd(Abs(v[1]), Abs(v[2])), Abs(v[3])))

\* Plane { normal, point }
Plane(normal, point) == [normal |-> normal, point |-> point]

\* a plausible slip: the difference is taken the other way round
Plane_distance_reversed(plane, point) == Dot(plane.normal, VSub(plane.point, point))

\* Plane::distance: self.normal.dot(&(point - self.point))
Plane_distance(plane, point) == Dot(plane.normal, VSub(point, plane.point))

\* the planes in the order Frustum::intersect examines them
PlanesOf(f) ==
    <<f.far_face, f.near_face, f.top_face, f.bottom_face, f.right_face, f.left_face>>

RECURSIVE intersect_planes_early(_, _, _)
\* a plausible slip: Intersecting is returned at the first plane that cuts
\* the box
intersect_planes_early(planes, abox, intersect) ==
    IF planes = <<>> THEN "Inside"
    ELSE IF Plane_distance(Head(planes), get_vertex_p(abox, Head(planes).normal)) < 0
    THEN "Outside"
    ELSE IF Plane_distance(Head(planes), get_vertex_n(abox, Head(planes).normal)) < 0
    THEN "Intersecting"
    ELSE intersect_planes_early(Tail(planes), abox, intersect)

RECURSIVE intersect_planes(_, _, _)
\* the loop of Frustum::intersect over the planes left, `intersect` its flag
intersect_planes(planes, abox, intersect) ==
    IF planes = <<>> THEN IF intersect THEN "Intersecting" ELSE "Inside"
    ELSE IF Plane_distance(Head(planes), get_vertex_p(abox, Head(planes).normal)) < 0
    THEN "Outside"
    ELSE intersect_planes(Tail(planes), abox,
            intersect
            \/ Plane_distance(Head(planes), get_vertex_n(abox, Head(planes).normal)) < 0)

\* Frustum::intersect
intersect(f, abox) == intersect_planes(PlanesOf(f), abox, FALSE)

\* Camera { pos, target, up, near_z, far_z, asepect_ratio, fov, .. }; the
\* field of view is kept as tan(fov / 2): 1 for 90 degrees
Camera(pos, target, up, near_z, far_z, asepect_ratio, tan_half_fov) ==
    [pos |-> pos, target |-> target, up |-> up, near_z |-> near_z, far_z |-> far_z,
     asepect_ratio |-> asepect_ratio, tan_half_fov |-> tan_half_fov]

\* Camera::up
Camera_up(c) == normalize(c.up)

\* Camera::front
Camera_front(c) == normalize(VSub(c.target, c.pos))

\* Camera::right
Camera_right(c) == normalize(Cross(Camera_front(c), Camera_up(c)))

\* let half_h_side = camera.far_z * (camera.fov * 0.5).to_radians().tan()
half_h_side(c) == c.far_z * c.tan_half_fov

\* let half_v_side = half_h_side * camera.asepect_ratio
half_v_side(c) == half_h_side(c) * c.asepect_ratio

\* camera.rs, the Frustum of Camera::frustum:
\* let half_v_side = camera.far_z * (camera.fov * 0.5).to_radians().tan()
camera_half_v_side(c) == c.far_z * c.tan_half_fov

\* camera.rs: let half_h_side = half_v_side * camera.asepect_ratio
camera_half_h_side(c) == camera_half_v_side(c) * c.asepect_ratio

\* let front_mult_far = camera.far_z * front
front_mult_far(c) == VScale(Camera_front(c), c.far_z)

\* Frustum::new
Frustum_new(c) ==
    [near_face |-> Plane(Camera_front(c), VAdd(c.pos, VScale(Camera_front(c), c.near_z))),
     far_face |-> Plane(VNeg(Camera_front(c)), VAdd(c.pos, front_mult_far(c))),
     right_face |->
        Plane(VNeg(normalize(Cross(VAdd(front_mult_far(c),
                                        VScale(Camera_right(c), half_h_side(c))),
                                   Camera_up(c)))),
              c.pos),
     left_face |->
        Plane(VNeg(normalize(Cross(Camera_up(c),
                                   VSub(front_mult_far(c),
                                        VScale(Camera_right(c), half_h_side(c)))))),
              c.pos),
     top_face |->
        Plane(normalize(Cross(VSub(front_mult_far(c),
                                   VScale(Camera_right(c), half_v_side(c))),
                              Camera_right(c))),
              c.pos),
     bottom_face |->
        Plane(normalize(Cross(Camera_right(c),
                              VAdd(front_mult_far(c),
                                   VScale(Camera_up(c), half_v_side(c))))),
              c.pos)]

(***************************************************************************)
(* SpecMap: Map::new run on one map directory.                             *)
(***************************************************************************)
MapInit ==
    /\ fs \in MapDirs
    /\ map = MapStart
    /\ call = [fn |-> "none"]
    /\ pc = "idle"
    /\ reader = NoReader
    /\ header = None
    /\ offsets = NewOffsets(0)
    /\ tiles = <<>>
    /\ loop = [i |-> 0]
    /\ result = NoResult
    /\ opened = <<>>
    /\ depth = 0
    /\ elements = <<>>
    /\ tree = NoTree
    /\ op = "init"
    /\ arg = 0
    /\ out = 0
    /\ box = NoBox
    /\ camera = NoCamera
    /\ frustum = NoFrustum
    /\ new_cell = NoCell
    /\ app = NoApp

SpecMap == MapInit /\ [][MapNext]_vars

(***************************************************************************)
(* SpecCell: Cell::new run on one file.                                    *)
(***************************************************************************)
CellInit ==
    /\ \E f \in CellFiles(4) \cup {Missing} : fs = [p \in {"hf.cell"} |-> f]
    /\ call = [fn |-> "Cell::new", path |-> "hf.cell", position |-> <<0, 0>>,
               color_tqt |-> None, normal_tqt |-> None, cell_width |-> 4]
    /\ pc = "cell_open"
    /\ reader = NoReader
    /\ header = None
    /\ offsets = NewOffsets(0)
    /\ tiles = <<>>
    /\ loop = [i |-> 0]
    /\ result = NoResult
    /\ opened = <<>>
    /\ map = NoMap
    /\ depth = 0
    /\ elements = <<>>
    /\ tree = NoTree
    /\ op = "init"
    /\ arg = 0
    /\ out = 0
    /\ box = NoBox
    /\ camera = NoCamera
    /\ frustum = NoFrustum
    /\ new_cell = NoCell
    /\ app = NoApp

SpecCell == CellInit /\ [][CellNext]_vars

(***************************************************************************)
(* SpecTree: the quadtree functions applied to bounded inputs.  A tree is   *)
(* built once from the list and then queried; every query is a pure        *)
(* function of the tree, so each is applied to the tree as built.          *)
(***************************************************************************)
IsQuadTree(t) == "tag" \in DOMAIN t /\ t.tag \in {"Element", "Quadrant"}

IsCompleteTree(t) == "tag" \in DOMAIN t /\ t.tag \in {"Leaf", "Node"}

\* the list start, start + stride, ... of n pairwise distinct elements
MkList(n, start, stride) == [k \in 1..n |-> start + (k - 1) * stride]

TreeInit ==
    /\ depth \in 0..MaxDepth
    /\ \E start \in 0..MaxStart, stride \in 1..MaxStride :
          \E n \in {4 ^ depth, full_size(depth)} :
             elements = MkList(n, start, stride)
    /\ tree = NoTree
    /\ op = "init"
    /\ arg = 0
    /\ out = 0
    /\ box = NoBox
    /\ camera = NoCamera
    /\ frustum = NoFrustum
    /\ new_cell = NoCell
    /\ app = NoApp
    /\ reader = NoReader
    /\ map = NoMap
    /\ LoadIdle

\* let q = QuadTree::build_tree(elements, depth)
BuildTree ==
    /\ tree = NoTree
    /\ tree' = build_tree(elements, depth)
    /\ op' = "build_tree"
    /\ UNCHANGED <<depth, elements, arg, out, reader, loadVars, map, geoVars>>

\* let q = QuadTree::build_complete_tree(elements, depth)
BuildCompleteTree ==
    /\ tree = NoTree
    /\ tree' = build_complete_tree(elements, depth)
    /\ op' = "build_complete_tree"
    /\ UNCHANGED <<depth, elements, arg, out, reader, loadVars, map, geoVars>>

\* q[flat_id], also one past the last element
IndexFlat ==
    /\ IsQuadTree(tree)
    /\ op = "build_tree"
    /\ \E flat_id \in 0..(4 ^ depth) :
          /\ arg' = flat_id
          /\ out' = index_flat(tree, flat_id)
    /\ op' = "index_flat"
    /\ UNCHANGED <<depth, elements, tree, reader, loadVars, map, geoVars>>

\* q[(row, col)], also one past the last row and column
IndexGrid ==
    /\ IsQuadTree(tree)
    /\ op = "build_tree"
    /\ \E row \in 0..(2 ^ depth), col \in 0..(2 ^ depth) :
          /\ arg' = <<row, col>>
          /\ out' = index_grid(tree, row, col)
    /\ op' = "index_grid"
    /\ UNCHANGED <<depth, elements, tree, reader, loadVars, map, geoVars>>

\* q.mut_view()
MutView ==
    /\ IsQuadTree(tree)
    /\ op = "build_tree"
    /\ arg' = 0
    /\ out' = mut_view(tree)
    /\ op' = "mut_view"
    /\ UNCHANGED <<depth, elements, tree, reader, loadVars, map, geoVars>>

\* items_at_level(l) for l = 0, 1, ..., depth - 1, one result per level
ItemsAtLevels ==
    /\ IsCompleteTree(tree)
    /\ op = "build_complete_tree"
    /\ arg' = 0
    /\ out' = [k \in 1..depth |-> items_at_level(tree, k - 1)]
    /\ op' = "items_at_levels"
    /\ UNCHANGED <<depth, elements, tree, reader, loadVars, map, geoVars>>

\* items_at_level(level), also one past the last level
ItemsAtLevel ==
    /\ IsCompleteTree(tree)
    /\ op = "build_complete_tree"
    /\ \E level \in 0..depth :
          /\ arg' = level
          /\ out' = items_at_level(tree, level)
    /\ op' = "items_at_level"
    /\ UNCHANGED <<depth, elements, tree, reader, loadVars, map, geoVars>>

\* full_size(d)
FullSize ==
    /\ op = "init"
    /\ \E d \in 0..MaxSizeDepth :
          /\ arg' = d
          /\ out' = full_size(d)
    /\ op' = "full_size"
    /\ UNCHANGED <<depth, elements, tree, reader, loadVars, map, geoVars>>

\* node_index(level, row, col) for every row, col of one level
NodeIndex ==
    /\ op = "init"
    /\ \E level \in 0..MaxDepth :
          /\ arg' = level
          /\ out' = [rc \in (0..(2 ^ level - 1)) \X (0..(2 ^ level - 1)) |->
                        node_index(level, rc[1], rc[2])]
    /\ op' = "node_index"
    /\ UNCHANGED <<depth, elements, tree, reader, loadVars, map, geoVars>>

TreeNext ==
    \/ BuildTree
    \/ BuildCompleteTree
    \/ IndexFlat
    \/ IndexGrid
    \/ MutView
    \/ ItemsAtLevels
    \/ ItemsAtLevel
    \/ FullSize
    \/ NodeIndex

SpecTree == TreeInit /\ [][TreeNext]_vars

(***************************************************************************)
(* SpecRead: read_value applied at arbitrary positions of bounded buffers. *)
(***************************************************************************)
ReadTypes == {"i16", "u16", "u32", "u64", "f32"}

\* three byte patterns: small bytes, bytes with the top bit set, and a mix
\* whose wide values fit 31 bits
BufPattern(p, n) ==
    [k \in 1..n |-> CASE p = 1 -> k
                      [] p = 2 -> 256 - k
                      [] OTHER -> IF k % 4 = 0 THEN 0 ELSE (k * 67) % 256]

ReadInit ==
    /\ \E p \in 1..3, n \in 0..MaxBufLen : reader = NewReader(BufPattern(p, n))
    /\ op = "init"
    /\ arg = 0
    /\ out = 0
    /\ box = NoBox
    /\ camera = NoCamera
    /\ frustum = NoFrustum
    /\ new_cell = NoCell
    /\ app = NoApp
    /\ depth = 0
    /\ elements = <<>>
    /\ tree = NoTree
    /\ map = NoMap
    /\ LoadIdle

\* reader.seek(SeekFrom::Start(offset)), also past the end
ReadSeek ==
    /\ Len(reader.seeks) < MaxSeeks
    /\ \E offset \in 0..(Len(reader.buf) + 1) :
          /\ arg' = offset
          /\ out' = seek_start(reader, offset)
    /\ reader' = out'.rd
    /\ op' = "seek"
    /\ UNCHANGED <<treeVars, loadVars, map, geoVars>>

\* read_value(&mut reader, &mut into, error_msg)
ReadValue ==
    /\ \E ty \in ReadTypes, into \in {0, 7} :
          /\ arg' = [ty |-> ty, into |-> into, msg |-> "Unable to read", rd |-> reader]
          /\ out' = read_value(reader, ty, into, "Unable to read")
    /\ reader' = out'.rd
    /\ op' = "read_value"
    /\ UNCHANGED <<treeVars, loadVars, map, geoVars>>

ReadNext ==
    \/ ReadSeek
    \/ ReadValue

SpecRead == ReadInit /\ [][ReadNext]_vars

(***************************************************************************)
(* SpecBox: AABB::new followed by any sequence of add_pt, +=,              *)
(* get_vertex_p and get_vertex_n.  `op` is the last call, `arg` its        *)
(* argument, `out` its result or, for a call that changes the box, the box *)
(* before it.                                                              *)
(***************************************************************************)
\* the coordinates are 0..MaxCoord
MaxCoord == 1

Coords == 0..MaxCoord

Points == Coords \X Coords \X Coords

\* the normals: every combination of a negative, a zero and a positive
\* component
Normals == {-1, 0, 1} \X {-1, 0, 1} \X {-1, 0, 1}

\* min <= max on every axis
Ordered(b) == \A i \in Axes : b.min[i] <= b.max[i]

\* a box as put_in_map_in_cell makes it for a chunk with min_y > max_y:
\* min <= max in x and z, min above max in y (AABB::new takes what it is
\* given)
InvertedBoxes ==
    {AABB_new(<<0, MaxCoord + 1, 0>>, <<MaxCoord, -1, MaxCoord>>)}

\* the boxes AABB::new is called for
Boxes ==
    {b \in {AABB_new(p, q) : p, q \in Points} : Ordered(b)} \cup InvertedBoxes

\* the boxes merged into the box: those as wide in z as in x
Operands == {b \in Boxes : b.min[3] = b.min[1] /\ b.max[3] = b.max[1]}

BoxInit ==
    /\ box \in Boxes
    /\ op = "new"
    /\ arg = <<box.min, box.max>>
    /\ out = box
    /\ camera = NoCamera
    /\ frustum = NoFrustum
    /\ new_cell = NoCell
    /\ app = NoApp
    /\ depth = 0
    /\ elements = <<>>
    /\ tree = NoTree
    /\ reader = NoReader
    /\ fs = <<>>
    /\ LoadIdle
    /\ map = NoMap

\* box.add_pt(pt)
BoxAddPt ==
    /\ \E pt \in Points :
          /\ box' = add_pt(box, pt)
          /\ arg' = pt
    /\ op' = "add_pt"
    /\ out' = box
    /\ UNCHANGED <<treeVars, reader, loadVars, map, camera, frustum, new_cell, app>>

\* box += rhs
BoxAddAssign ==
    /\ \E rhs \in Operands :
          /\ box' = add_assign(box, rhs)
          /\ arg' = rhs
    /\ op' = "add_assign"
    /\ out' = box
    /\ UNCHANGED <<treeVars, reader, loadVars, map, camera, frustum, new_cell, app>>

\* box.get_vertex_p(normal)
BoxGetVertexP ==
    /\ \E normal \in Normals :
          /\ out' = get_vertex_p(box, normal)
          /\ arg' = normal
    /\ op' = "get_vertex_p"
    /\ UNCHANGED <<treeVars, reader, loadVars, map, geoVars>>

\* box.get_vertex_n(normal)
BoxGetVertexN ==
    /\ \E normal \in Normals :
          /\ out' = get_vertex_n(box, normal)
          /\ arg' = normal
    /\ op' = "get_vertex_n"
    /\ UNCHANGED <<treeVars, reader, loadVars, map, geoVars>>

BoxNext ==
    \/ BoxAddPt
    \/ BoxAddAssign
    \/ BoxGetVertexP
    \/ BoxGetVertexN

SpecBox == BoxInit /\ [][BoxNext]_vars

(***************************************************************************)
(* SpecPlanes: Frustum::intersect on a frustum given plane by plane.  All  *)
(* coordinates of the boxes and of the plane points are even and every     *)
(* normal has components -1, 0, 1 with those of each pair of side planes   *)
(* in one coordinate plane: the corners of the common part of a box and    *)
(* the volume are then points with integer coordinates, so the two have a  *)
(* point in common exactly if they have one with integer coordinates.      *)
(***************************************************************************)
\* the boxes reach 2 * MaxReach from the origin in x and y
MaxReach == 2

\* the even numbers from lo to hi
Evens(lo, hi) == {2 * k : k \in lo..hi}

\* the intervals with even ends between -2 * MaxReach and 2 * MaxReach
Intervals == {iv \in Evens(-MaxReach, MaxReach) \X Evens(-MaxReach, MaxReach) : iv[1] <= iv[2]}

\* the z ranges of the boxes: within the near and far planes, across the
\* far plane, behind the near plane, a flat box
Depths == {<<2, 4>>, <<2, 8>>, <<-4, -2>>, <<4, 4>>}

\* the boxes tested
PlaneBoxes ==
    {AABB_new(<<x[1], y[1], z[1]>>, <<x[2], y[2], z[2]>>) :
        x \in Intervals, y \in Intervals, z \in Depths}

\* volumes between z = 0 and z = 6 whose four side planes are parallel to
\* the z axis: y <= 2 or x + y <= -2 on top, y >= -2 or y >= -4 below,
\* x <= 2 or y <= x - 2 on the right, x >= -2 or x + y >= -4 on the left
SlabFrustums ==
    [far_face : {Plane(<<0, 0, -1>>, <<0, 0, 6>>)},
     near_face : {Plane(<<0, 0, 1>>, <<0, 0, 0>>)},
     top_face : {Plane(<<0, -1, 0>>, <<0, 2, 0>>), Plane(<<-1, -1, 0>>, <<0, -2, 0>>)},
     bottom_face : {Plane(<<0, 1, 0>>, <<0, -2, 0>>), Plane(<<0, 1, 0>>, <<0, -4, 0>>)},
     right_face : {Plane(<<-1, 0, 0>>, <<2, 0, 0>>), Plane(<<1, -1, 0>>, <<0, -2, 0>>)},
     left_face : {Plane(<<1, 0, 0>>, <<-2, 0, 0>>), Plane(<<1, 1, 0>>, <<-2, -2, 0>>)}]

\* the view volume of a camera at the origin that looks down +z with a
\* field of view of 90 degrees, from z = 2 to z = 6
PyramidFrustum ==
    [far_face |-> Plane(<<0, 0, -1>>, <<0, 0, 6>>),
     near_face |-> Plane(<<0, 0, 1>>, <<0, 0, 2>>),
     top_face |-> Plane(<<0, -1, 1>>, <<0, 0, 0>>),
     bottom_face |-> Plane(<<0, 1, 1>>, <<0, 0, 0>>),
     right_face |-> Plane(<<-1, 0, 1>>, <<0, 0, 0>>),
     left_face |-> Plane(<<1, 0, 1>>, <<0, 0, 0>>)]

GivenFrustums == SlabFrustums \cup {PyramidFrustum}

PlanesInit ==
    /\ frustum \in GivenFrustums
    /\ new_cell = NoCell
    /\ app = NoApp
    /\ box \in PlaneBoxes
    /\ camera = NoCamera
    /\ op = "new"
    /\ arg = 0
    /\ out = 0
    /\ depth = 0
    /\ elements = <<>>
    /\ tree = NoTree
    /\ reader = NoReader
    /\ fs = <<>>
    /\ LoadIdle
    /\ map = NoMap

\* frustum.intersect(&box)
FrustumIntersect ==
    /\ frustum # NoFrustum
    /\ op # "intersect"
    /\ op' = "intersect"
    /\ out' = intersect(frustum, box)
    /\ UNCHANGED <<treeVars, arg, reader, loadVars, map, geoVars>>

PlanesNext == FrustumIntersect

SpecPlanes == PlanesInit /\ [][PlanesNext]_vars

(***************************************************************************)
(* SpecFrustum: Frustum::new on a camera, then Frustum::intersect on a     *)
(* box.  The cameras look along an axis, with up along another axis.       *)
(***************************************************************************)
\* far_z of the cameras
MaxFar == 6

\* the unit vectors along the axes
Units ==
    {<<1, 0, 0>>, <<-1, 0, 0>>, <<0, 1, 0>>, <<0, -1, 0>>, <<0, 0, 1>>, <<0, 0, -1>>}

\* a camera at pos that looks along `front`, its target at distance len and
\* its up vector of length len
CameraAt(pos, front, up, len, asepect_ratio, tan_half_fov) ==
    Camera(pos, VAdd(pos, VScale(front, len)), VScale(up, len), 1, MaxFar,
           asepect_ratio, tan_half_fov)

\* the cameras: two positions, every direction along an axis with every up
\* at a right angle to it, aspect ratios 1 and 2, fields of view with
\* tan(fov / 2) = 1 and 2
Cameras ==
    {CameraAt(pos, fu[1], fu[2], len, ar, t) :
        pos \in {<<0, 0, 0>>, <<2, -2, 4>>},
        fu \in {x \in Units \X Units : Dot(x[1], x[2]) = 0},
        len \in {1, 2}, ar \in {1, 2}, t \in {1, 2}}

\* the point at distance d along the view direction of the camera, moved by
\* a to the right and by b upwards
ViewPoint(c, d, a, b) ==
    VAdd(VAdd(c.pos, VScale(Camera_front(c), d)),
         VAdd(VScale(Camera_right(c), a), VScale(Camera_up(c), b)))

\* the cube of half side s around a point
CubeAt(centre, s) == AABB_new(VSub(centre, <<s, s, s>>), VAdd(centre, <<s, s, s>>))

\* the boxes tested with a camera: points and cubes of side 2, behind the
\* camera, between near and far, at the far plane and beyond it, on the
\* axis and to its four sides
CameraBoxes(c) ==
    {CubeAt(ViewPoint(c, d, ab[1], ab[2]), s) :
        d \in {-3, 3, MaxFar, MaxFar + 3},
        ab \in {<<0, 0>>, <<4, 0>>, <<-4, 0>>, <<0, 4>>, <<0, -4>>},
        s \in {0, 1}}

FrustumInit ==
    /\ camera \in Cameras
    /\ box \in CameraBoxes(camera)
    /\ frustum = NoFrustum
    /\ new_cell = NoCell
    /\ app = NoApp
    /\ op = "new"
    /\ arg = 0
    /\ out = 0
    /\ depth = 0
    /\ elements = <<>>
    /\ tree = NoTree
    /\ reader = NoReader
    /\ fs = <<>>
    /\ LoadIdle
    /\ map = NoMap

\* Frustum::new(&camera)
FrustumNew ==
    /\ camera # NoCamera
    /\ frustum = NoFrustum
    /\ frustum' = Frustum_new(camera)
    /\ op' = "Frustum::new"
    /\ UNCHANGED <<treeVars, arg, out, reader, loadVars, map, box, camera, new_cell, app>>

FrustumNext ==
    \/ FrustumNew
    \/ FrustumIntersect

SpecFrustum == FrustumInit /\ [][FrustumNext]_vars

(***************************************************************************)
(* Cell::put_in_map and Cell::corner_world_position on their own: a        *)
(* decoded cell of a grid position and a map, put_in_map called on it any  *)
(* number of times.  new_cell is the cell, arg the MapInfo of the map, out *)
(* what the last call returned (for put_in_map, which returns nothing, the *)
(* cell as it was before the call).                                        *)
(***************************************************************************)
\* the deepest cell placed, levels 0 .. MaxPlaceDepth - 1
MaxPlaceDepth == 3

\* the largest row and column of the grid position of the cell
MaxGrid == 1

\* cell widths are 2^0 .. 2^MaxWidthLog samples
MaxWidthLog == 3

RECURSIVE read_tiles(_, _, _)
\* the tiles QuadTree<Tile>::read_from pushes, in its order, when every chunk
\* reads: node k (from 0) gets ChunkOf(k)
read_tiles(lp, d, ts) ==
    IF lp.level >= d THEN ts
    ELSE read_tiles(next_node(lp), d,
                    Append(ts, NewTile(ChunkOf(Len(ts)), lp.row, lp.col, lp.level)))

\* the cell Cell::new returns for grid position pos and a file of depth d
LoadedCell(pos, d) ==
    NewCell([position |-> pos, color_tqt |-> None, normal_tqt |-> None], d,
            build_complete_tree(read_tiles([level |-> 0, row |-> 0, col |-> 0], d, <<>>), d))

LoadedCells ==
    {LoadedCell(pos, d) : pos \in (0..MaxGrid) \X (0..MaxGrid), d \in 1..MaxPlaceDepth}

\* the MapInfo of the maps a cell is put in
PlaceInfos ==
    {[MapInfoOf(1 + MaxGrid, 1 + MaxGrid, 2 ^ k, FALSE, FALSE) EXCEPT !.h_scale = hs] :
        k \in 0..MaxWidthLog, hs \in {1, 2, 3}}

PlaceInit ==
    /\ new_cell \in LoadedCells
    /\ app = NoApp
    /\ arg \in PlaceInfos
    /\ op = "Cell::new"
    /\ out = 0
    /\ box = NoBox
    /\ camera = NoCamera
    /\ frustum = NoFrustum
    /\ depth = 0
    /\ elements = <<>>
    /\ tree = NoTree
    /\ reader = NoReader
    /\ fs = <<>>
    /\ LoadIdle
    /\ map = NoMap

\* new_cell.put_in_map(&map)
PlacePutInMap ==
    /\ new_cell # NoCell
    /\ new_cell' = put_in_map(new_cell, arg)
    /\ op' = "put_in_map"
    /\ out' = new_cell
    /\ UNCHANGED <<treeVars, arg, reader, loadVars, map, box, camera, frustum, app>>

\* new_cell.corner_world_position()
PlaceCorner ==
    /\ new_cell # NoCell
    /\ op' = "corner_world_position"
    /\ out' = corner_world_position(new_cell)
    /\ UNCHANGED <<treeVars, arg, reader, loadVars, map, geoVars>>

PlaceNext ==
    \/ PlacePutInMap
    \/ PlaceCorner

SpecPlace == PlaceInit /\ [][PlaceNext]_vars

(***************************************************************************)
(* main.rs: the closure of event_loop.run, with App::recreate_swapchain    *)
(* and App::draw of app.rs.  app holds what the handlers read and write:   *)
(* the inner size of the window (dimensions), the image extent of the      *)
(* swapchain the App holds (image_extent), the local swapachain_state of   *)
(* main and its control_flow ("panic" once a handler has panicked).  What  *)
(* the windowing system and the Vulkan driver answer (the new size of the  *)
(* window, the results of Swapchain::recreate, acquire_next_image and the  *)
(* flush of the frame) is chosen freely.  app.pending is a history of the  *)
(* run: a recreation has been asked for (Resized, or draw returned Dirty   *)
(* or SubOptimal) and the swapchain has not been replaced since.  op is    *)
(* the event handled last, arg the swapachain_state it found, out the      *)
(* calls of recreate_swapchain and draw the handler made.                  *)
(***************************************************************************)
\* the sides of the window are 0 .. MaxSide (0: minimised)
MaxSide == 2

Dimensions == (0..MaxSide) \X (0..MaxSide)

\* dimensions.width == 0 || dimensions.height == 0
IsZero(dimensions) == dimensions[1] = 0 \/ dimensions[2] = 0

\* App::new(window_state, map) and let mut swapachain_state = SwapchainState::Good
NewApp(dimensions) ==
    [dimensions |-> dimensions, image_extent |-> dimensions,
     swapachain_state |-> "Good", control_flow |-> "Poll", pending |-> FALSE]

\* App::recreate_swapchain; recreated is what swapchain.recreate(..) returned
recreate_swapchain(a, recreated) ==
    IF IsZero(a.dimensions) THEN a
    ELSE IF recreated = "Ok"
         THEN [a EXCEPT !.image_extent = a.dimensions, !.pending = FALSE]
    ELSE IF recreated = "ImageExtentNotSupported" THEN a
    ELSE [a EXCEPT !.control_flow = "panic"]

\* App::draw, the SwapchainState it returns; acquired is what
\* acquire_next_image returned, flushed what then_signal_fence_and_flush did
draw(acquired, flushed) ==
    IF acquired = "OutOfDate" THEN Ok("Dirty")
    ELSE IF acquired = "Err" THEN Panic("Failed to acquire next image")
    ELSE IF flushed = "OutOfDate" THEN Ok("Dirty")
    ELSE IF flushed = "Err" THEN Panic("Failed to flush future")
    ELSE IF acquired = "Suboptimal" THEN Ok("SubOptimal")
    ELSE Ok("Good")

\* swapachain_state = app.draw()
set_state(a, drawn) ==
    IF ~drawn.ok THEN [a EXCEPT !.control_flow = "panic"]
    ELSE [a EXCEPT !.swapachain_state = drawn.v, !.pending = (@ \/ drawn.v # "Good")]

\* match swapachain_state { Dirty | SubOptimal => app.recreate_swapchain(), _ => {} }
match_state(a, recreated) ==
    IF a.swapachain_state \in {"Dirty", "SubOptimal"} THEN recreate_swapchain(a, recreated)
    ELSE a

\* Event::RedrawEventsCleared
redraw_events_cleared(a, recreated, acquired, flushed) ==
    IF IsZero(a.dimensions) THEN a
    ELSE IF match_state(a, recreated).control_flow = "panic" THEN match_state(a, recreated)
    ELSE set_state(match_state(a, recreated), draw(acquired, flushed))

\* the calls the handler of RedrawEventsCleared makes, in order
redraw_calls(a, recreated) ==
    IF IsZero(a.dimensions) THEN <<>>
    ELSE (IF a.swapachain_state \in {"Dirty", "SubOptimal"}
          THEN <<"recreate_swapchain">> ELSE <<>>)
         \o (IF match_state(a, recreated).control_flow = "panic" THEN <<>> ELSE <<"draw">>)

LoopInit ==
    /\ app \in {NewApp(d) : d \in {x \in Dimensions : ~IsZero(x)}}
    /\ op = "App::new"
    /\ arg = "Good"
    /\ out = <<>>
    /\ new_cell = NoCell
    /\ box = NoBox
    /\ camera = NoCamera
    /\ frustum = NoFrustum
    /\ depth = 0
    /\ elements = <<>>
    /\ tree = NoTree
    /\ reader = NoReader
    /\ fs = <<>>
    /\ LoadIdle
    /\ map = NoMap

\* what every handler leaves alone
LoopFrame == UNCHANGED <<treeVars, reader, loadVars, map, box, camera, frustum, new_cell>>

\* WindowEvent::CloseRequested => *control_flow = ControlFlow::Exit
CloseRequested ==
    /\ app.control_flow = "Poll"
    /\ app' = [app EXCEPT !.control_flow = "Exit"]
    /\ op' = "CloseRequested"
    /\ arg' = app.swapachain_state
    /\ out' = <<>>
    /\ LoopFrame

\* WindowEvent::Resized(_) => swapachain_state = SwapchainState::Dirty; the
\* window has its new size
Resized ==
    /\ app.control_flow = "Poll"
    /\ \E d \in Dimensions :
          /\ d # app.dimensions
          /\ app' = [app EXCEPT !.dimensions = d, !.swapachain_state = "Dirty",
                                !.pending = TRUE]
    /\ op' = "Resized"
    /\ arg' = app.swapachain_state
    /\ out' = <<>>
    /\ LoopFrame

\* WindowEvent::KeyboardInput, a key pressed: Q leaves the loop, the other
\* keys move the camera
KeyboardInput ==
    /\ app.control_flow = "Poll"
    /\ \E keycode \in {"Q", "W"} :
          app' = IF keycode = "Q" THEN [app EXCEPT !.control_flow = "Exit"] ELSE app
    /\ op' = "KeyboardInput"
    /\ arg' = app.swapachain_state
    /\ out' = <<"camera_updated">>
    /\ LoopFrame

\* Event::RedrawEventsCleared
RedrawEventsCleared ==
    /\ app.control_flow = "Poll"
    /\ \E recreated \in {"Ok", "ImageExtentNotSupported", "Err"},
          acquired \in {"Ok", "Suboptimal", "OutOfDate", "Err"},
          flushed \in {"Ok", "OutOfDate", "Err"} :
          /\ app' = redraw_events_cleared(app, recreated, acquired, flushed)
          /\ out' = redraw_calls(app, recreated)
    /\ op' = "RedrawEventsCleared"
    /\ arg' = app.swapachain_state
    /\ LoopFrame

LoopNext ==
    \/ CloseRequested
    \/ Resized
    \/ KeyboardInput
    \/ RedrawEventsCleared

SpecLoop == LoopInit /\ [][LoopNext]_vars

(***************************************************************************)
(* Properties of the quadtree container and its index arithmetic.          *)
(***************************************************************************)
\* the quadrant digit of one (row bit, column bit): nw 0, ne 1, se 2, sw 3
QuadDigit(rb, cb) ==
    IF rb = 0 THEN (IF cb = 0 THEN 0 ELSE 1) ELSE (IF cb = 1 THEN 2 ELSE 3)

RECURSIVE GridToFlat(_, _, _)
\* f(row, col): one base-4 digit per level, most significant bits first
GridToFlat(row, col, d) ==
    IF d = 0 THEN 0
    ELSE LET h == 2 ^ (d - 1) IN
         QuadDigit(row \div h, col \div h) * (4 ^ (d - 1))
            + GridToFlat(row % h, col % h, d - 1)

\* C1: for every depth d >= 1 and every list L of full_size(d) elements,
\* build_complete_tree(L, d) followed by items_at_level(l) for l = 0..d-1
\* yields, concatenated, exactly L in order; level l contributes 4^l items.
C1_LevelsRecoverInput ==
    (op = "items_at_levels" /\ depth >= 1) =>
        /\ Len(out) = depth
        /\ \A k \in 1..depth : out[k].ok /\ Len(out[k].v) = 4 ^ (k - 1)
        /\ Flatten([k \in 1..depth |-> out[k].v]) = elements

\* a complete tree of three levels has been built and read back level by level
C1_Witness ==
    /\ op = "items_at_levels"
    /\ depth = 3
    /\ Len(elements) = 21
    /\ Len(out[3].v) = 16

\* C2: on 0 <= row, col < 2^level, node_index(level, row, col) is a bijection
\* onto [full_size(level), full_size(level + 1)), and the ranges of different
\* levels are disjoint.
C2_NodeIndexBijection ==
    (op = "node_index") =>
        LET grid == DOMAIN out
            lo == NodeCount(arg)
            hi == NodeCount(arg + 1)
        IN  /\ \A a \in grid, b \in grid : (a # b) => (out[a] # out[b])
            /\ {out[a] : a \in grid} = lo..(hi - 1)
            /\ lo = full_size(arg) /\ hi = full_size(arg + 1)
            /\ \A other \in 0..MaxDepth : (other # arg) =>
                  \A r \in 0..(2 ^ other - 1), c \in 0..(2 ^ other - 1) :
                     node_index(other, r, c) \notin lo..(hi - 1)

\* the indices of a level with more than one row have been computed
C2_Witness ==
    /\ op = "node_index"
    /\ arg = 2
    /\ Cardinality(DOMAIN out) = 16

\* C3: full_size(d), computed as 4^d / 3 with truncating division, equals
\* (4^d - 1)/3, the sum of 4^l for l = 0..d-1, for every d of 1..MaxSizeDepth.
C3_FullSizeIsNodeCount ==
    (op = "full_size" /\ arg >= 1) =>
        /\ 3 * out = (4 ^ arg) - 1
        /\ out = NodeCount(arg)

\* full_size has been applied to the largest depth of the claim
C3_Witness ==
    /\ op = "full_size"
    /\ arg = 10
    /\ out = 349525

\* C4: build_tree(L, d) preserves the input order: q[i] = L[i] for every i in
\* [0, 4^d), and mut_view() yields a reference to every element exactly once,
\* in the order of L, no two references to the same place.
C4_BuildTreeKeepsOrder ==
    /\ (op = "index_flat" /\ arg < 4 ^ depth) => out = Ok(elements[arg + 1])
    /\ (op = "mut_view") =>
          /\ Len(out) = 4 ^ depth
          /\ \A k \in 1..Len(out) : Deref(tree, out[k]) = elements[k]
          /\ \A j \in 1..Len(out), k \in 1..Len(out) : (j # k) => (out[j] # out[k])

\* a tree of two levels of quadrants has been flattened by mut_view
C4_Witness ==
    /\ op = "mut_view"
    /\ depth = 2
    /\ Len(out) = 16
    /\ out[7] = <<"ne", "se">>

\* the last element of a tree of two levels of quadrants has been indexed
C4_WitnessIndex ==
    /\ op = "index_flat"
    /\ depth = 2
    /\ arg = 15
    /\ out = Ok(elements[16])

\* C5: for d >= 1 and 0 <= row, col < 2^d, q[(row, col)] = L[f(row, col)] with
\* f descending one quadrant per level (nw 0, ne 1, se 2, sw 3) from the most
\* significant bits; f is a bijection from the grid onto [0, 4^d).
C5_GridIndexIsQuadrantPath ==
    (op = "index_grid" /\ depth >= 1 /\ arg[1] < 2 ^ depth /\ arg[2] < 2 ^ depth) =>
        LET grid == (0..(2 ^ depth - 1)) \X (0..(2 ^ depth - 1)) IN
        /\ out = Ok(elements[GridToFlat(arg[1], arg[2], depth) + 1])
        /\ out = index_flat(tree, GridToFlat(arg[1], arg[2], depth))
        \* onto a set with as many members as the grid, so one to one as well
        /\ {GridToFlat(rc[1], rc[2], depth) : rc \in grid} = 0..(4 ^ depth - 1)
        /\ Cardinality(grid) = Cardinality(0..(4 ^ depth - 1))

\* the south-west-most cell of a 4 x 4 grid has been indexed: row 3, column 0
\* is sw (digit 3) then sw (digit 3), flat position 15
C5_Witness ==
    /\ op = "index_grid"
    /\ depth = 2
    /\ arg = <<3, 0>>
    /\ out = Ok(elements[16])

(***************************************************************************)
(* Properties of the record reader.                                        *)
(***************************************************************************)
\* the width in bytes of each readable type
WidthOf(ty) == IF ty \in {"i16", "u16"} THEN 2 ELSE IF ty \in {"u32", "f32"} THEN 4 ELSE 8

\* v is the little-endian decoding of bytes as type ty: the k-th byte is the
\* k-th base-256 digit of the value (two's complement for i16); a value that
\* does not fit the model's integers is saturated
IsLeDecoding(v, ty, bytes) ==
    LET raw == IF ty = "i16" /\ v < 0 THEN v + 65536 ELSE v
        fits == /\ \A k \in 1..Len(bytes) : (k > 4) => (bytes[k] = 0)
                /\ (Len(bytes) >= 4) => (bytes[4] < 128)
    IN  IF fits
        THEN /\ \A k \in 1..Min(Len(bytes), 4) : (raw \div (256 ^ (k - 1))) % 256 = bytes[k]
             /\ raw >= 0
             /\ (Len(bytes) < 4) => (raw < 256 ^ Len(bytes))
             /\ (ty = "i16") => ((v < 0) <=> (bytes[2] >= 128))
        ELSE raw >= Cap - 1

\* C9: read_value for a type of width N succeeds exactly when at least N bytes
\* remain at the current position; on success it consumes exactly N bytes and
\* stores their little-endian decoding; otherwise it returns the caller's
\* error and leaves the target unchanged.
C9_ReadValueExact ==
    (op = "read_value") =>
        LET N == WidthOf(arg.ty)
            before == arg.rd
            remaining == Len(before.buf) - before.pos
        IN  /\ (out.res = "ok") <=> (remaining >= N)
            /\ (out.res = "ok") =>
                  /\ out.rd.pos = before.pos + N
                  /\ IsLeDecoding(out.into, arg.ty,
                                  SubSeq(before.buf, before.pos + 1, before.pos + N))
            /\ (out.res # "ok") => (out.res = arg.msg /\ out.into = arg.into)
            /\ out.rd.buf = before.buf

\* a 16-bit value with the top bit set has been read in the middle of a buffer
\* as a negative i16
C9_Witness ==
    /\ op = "read_value"
    /\ arg.ty = "i16"
    /\ arg.rd.pos = 3
    /\ out.res = "ok"
    /\ out.into < 0
    /\ reader.pos = 5

\* a read with too few bytes left has failed and kept a non-zero target
C9_WitnessTruncated ==
    /\ op = "read_value"
    /\ arg.ty = "u32"
    /\ arg.into = 7
    /\ Len(arg.rd.buf) - arg.rd.pos = 3
    /\ out.res = "Unable to read"
    /\ out.into = 7

(***************************************************************************)
(* Claims about Cell::new, checked under SpecCell.                         *)
(***************************************************************************)
\* the failure values of the spec's taxonomy, as the messages the code returns
InvalidFormat == Err("Invalid magic no.")

UnsupportedFeature == Err("Compressed cells are not supported yet")

SizeMismatch == Err("Cell size does not match map cell size")

DepthOutOfRange == Err("Depth out of supported range.")

HeaderErrors == {InvalidFormat, UnsupportedFeature, SizeMismatch, DepthOutOfRange}

\* the file Cell::new was called on
CellBytes == fs[call.path]

\* the header has been decoded and the checks of Cell::new have run on it
HeaderChecked == call.fn = "Cell::new" /\ header # None /\ pc # "cell_check"

\* C6: once the checks have run on a decoded header, the call has returned
\* InvalidFormat if the magic is wrong, else UnsupportedFeature if the
\* compressed flag is set, else SizeMismatch if the size is not the cell
\* width, else DepthOutOfRange if the depth is outside [1, 9]; and if all four
\* fields are right the decoder has gone on to an offset table of
\* full_size(depth) entries and returns none of the four header errors.
C6_HeaderValidationOrder ==
    HeaderChecked =>
        LET h == header[1] IN
        IF h.magic # CELL_MAGIC THEN pc = "return" /\ result = InvalidFormat
        ELSE IF h.compressed THEN pc = "return" /\ result = UnsupportedFeature
        ELSE IF h.size # call.cell_width THEN pc = "return" /\ result = SizeMismatch
        ELSE IF h.depth < 1 \/ h.depth > 9 THEN pc = "return" /\ result = DepthOutOfRange
        ELSE /\ offsets.n = full_size(h.depth)
             /\ result \notin HeaderErrors
             /\ pc \in {"cell_offsets", "cell_tiles", "return"}
             /\ pc = "return" => result # NoResult

\* a header whose compressed flag, size and depth are all wrong is reported
\* as compressed
C6_Witness ==
    /\ HeaderChecked
    /\ header[1].magic = CELL_MAGIC /\ header[1].compressed
    /\ header[1].size # call.cell_width /\ header[1].depth > 9
    /\ result = UnsupportedFeature

\* a header at the upper depth limit is accepted
C6_WitnessAccepted ==
    /\ HeaderChecked
    /\ header[1].depth = 9
    /\ pc = "cell_offsets"

\* the file exists, holds at least n bytes, and its first four bytes are not
\* the magic number
BadMagicFile(n) ==
    /\ call.fn = "Cell::new"
    /\ CellBytes # Missing
    /\ Len(CellBytes) >= n
    /\ LeUnsigned(SubSeq(CellBytes, 1, 4)) # CELL_MAGIC

\* no entry of the offset table and no chunk record has been read
NothingReadPastHeader ==
    /\ offsets.vals = <<>>
    /\ tiles = <<>>
    /\ reader.seeks = <<>>
    /\ reader.pos <= 16

\* C7 as stated: every buffer whose first four bytes are not the magic number
\* makes Cell::new return InvalidFormat, with nothing read past the header.
C7_BadMagicAlwaysInvalidFormat ==
    (BadMagicFile(4) /\ pc = "return") => (result = InvalidFormat /\ NothingReadPastHeader)

\* the read of the header field that a file of n < 16 bytes cuts short
TruncatedField(n) ==
    CASE n < 4 -> Err("Unable to read magic no.")
      [] n < 8 -> Err("Unable to read compressed flag")
      [] n < 12 -> Err("Unable to read size")
      [] OTHER -> Err("Unable to read depth")

\* C7, amended: a buffer holding a complete 16-byte header whose magic is
\* wrong makes Cell::new return InvalidFormat, never a panic or another
\* error, after exactly the 16 header bytes: the decoder never reaches the
\* offset table, reads no offset and no chunk and seeks nowhere.  A buffer
\* shorter than 16 bytes returns the read error of the field cut short,
\* whatever its first four bytes are.
C7_BadMagicCompleteHeader ==
    /\ BadMagicFile(16) =>
          /\ pc \in {"cell_open", "cell_header", "cell_check", "return"}
          /\ NothingReadPastHeader
          /\ pc = "return" => (result = InvalidFormat /\ reader.pos = 16)
    /\ (call.fn = "Cell::new" /\ CellBytes # Missing /\ Len(CellBytes) < 16 /\ pc = "return")
          => result = TruncatedField(Len(CellBytes))

\* a file with a wrong magic number, a set compressed flag and chunks after
\* the header has been rejected
C7_Witness ==
    /\ BadMagicFile(17)
    /\ pc = "return"
    /\ header # None /\ header[1].compressed
    /\ result = InvalidFormat

\* the level of the node stored at flat position k
LevelOfIndex(k) == CHOOSE l \in 0..MAX_DEPTH : full_size(l) <= k /\ k < full_size(l + 1)

\* the k-th node (from 0) of the order level 0..d-1, row-major within a level
NodeAt(k) ==
    LET l == LevelOfIndex(k) IN
    [level |-> l, row |-> (k - full_size(l)) \div (2 ^ l), col |-> (k - full_size(l)) % (2 ^ l)]

\* the offset table stored in the file after the 16-byte header
StoredOffset(k) == from_le_bytes("u64", SubSeq(CellBytes, 16 + 8 * k + 1, 16 + 8 * k + 8))

\* the header was accepted and the whole offset table has been read
OffsetsRead == call.fn = "Cell::new" /\ (pc = "cell_tiles" \/ (pc = "return" /\ tiles # <<>>))

\* C10: once the offset table has been read after a valid header of depth d,
\* it holds exactly the full_size(d) 64-bit values stored after the header;
\* the k-th tile decoded is node NodeAt(k) of the level-major, row-major
\* order, its chunk is the record at offsets[k], it carries its own
\* (row, col) and level and bbox = None; the seeks made are offsets[0],
\* offsets[1], ... in this order, each once; and the list handed to tree
\* construction has exactly full_size(d) tiles.
C10_OffsetsAndNodeOrder ==
    OffsetsRead =>
        LET d == header[1].depth
            n == full_size(d)
        IN  /\ offsets.n = n /\ Len(offsets.vals) = n
            /\ \A k \in 0..(n - 1) : offsets.vals[k + 1] = StoredOffset(k)
            /\ tiles = <<>> => reader.pos = 16 + 8 * n
            /\ Len(tiles) <= n
            /\ Len(reader.seeks) \in {Len(tiles), Len(tiles) + 1}
            /\ Len(reader.seeks) <= n
            /\ \A k \in 1..Len(reader.seeks) : reader.seeks[k] = offsets.vals[k]
            /\ pc = "cell_tiles" =>
                  /\ Len(reader.seeks) = Len(tiles)
                  /\ loop.level < d => node_index(loop.level, loop.row, loop.col) = Len(tiles)
                  /\ loop.level = d => Len(tiles) = n
            /\ \A k \in 1..Len(tiles) :
                  /\ tiles[k].level = NodeAt(k - 1).level
                  /\ tiles[k].position = <<NodeAt(k - 1).row, NodeAt(k - 1).col>>
                  /\ node_index(tiles[k].level, tiles[k].position[1], tiles[k].position[2]) = k - 1
                  /\ tiles[k].bbox = None
                  /\ Ok(tiles[k].chunk) = Chunk_read_from(NewReader(CellBytes), offsets.vals[k]).res
            /\ (pc = "return" /\ result.ok) =>
                  /\ Len(tiles) = n
                  /\ result.v.lod = build_complete_tree(tiles, d)
                  /\ result.v.depth = d

\* a cell of depth 2 whose chunks are stored in reverse node order has been
\* decoded: all five tiles, the offsets decreasing
C10_Witness ==
    /\ OffsetsRead
    /\ pc = "return" /\ result.ok
    /\ header[1].depth = 2
    /\ Len(tiles) = 5
    /\ offsets.vals[1] > offsets.vals[2]
    /\ tiles[5].position = <<1, 1>>

(***************************************************************************)
(* Claims about loading, checked under SpecMap.                            *)
(***************************************************************************)
\* an Err(msg): a failure value, with no Cell, quadtree or Map in it
IsErr(r) == DOMAIN r = {"ok", "err"} /\ ~r.ok

\* the decoder is about to open a file that is not there, or to read a
\* header from a file shorter than one, or stands before a header check
\* that does not pass
HeaderFails ==
    \/ pc \in {"cell_open", "tqt_open"} /\ fs[call.path] = Missing
    \/ pc \in {"cell_header", "tqt_header"} /\ Len(reader.buf) < 16
    \/ /\ pc = "cell_check"
       /\ \/ header[1].magic # CELL_MAGIC
          \/ header[1].compressed
          \/ header[1].size # call.cell_width
          \/ header[1].depth < 1
          \/ header[1].depth > 9
    \/ /\ pc = "tqt_check"
       /\ (header[1].magic # TQT_MAGIC \/ header[1].version # 1)

\* the decoder is about to read an offset of which less than 8 bytes are left
OffsetReadFails ==
    /\ pc \in {"cell_offsets", "tqt_offsets"}
    /\ loop.i < offsets.n
    /\ Len(reader.buf) - reader.pos < 8

\* the decoder is about to decode a node whose offset has been read
InNodeLoop ==
    /\ pc \in {"cell_tiles", "tqt_tiles"}
    /\ loop.level < header[1].depth
    /\ node_index(loop.level, loop.row, loop.col) < Len(offsets.vals)

\* the offset of the node about to be decoded
NextOffset == offsets.vals[node_index(loop.level, loop.row, loop.col) + 1]

\* the seek to the node about to be decoded fails
SeekFails == InNodeLoop /\ NextOffset >= Cap

\* the reader, had it been moved to the node about to be decoded
AtNextOffset == [reader EXCEPT !.pos = NextOffset]

\* the record or image of the node about to be decoded does not decode
NodeDecodeFails ==
    /\ InNodeLoop
    /\ NextOffset < Cap
    /\ IF pc = "cell_tiles"
       THEN ~Chunk_vertices(ChunkHeader_read_from(AtNextOffset)).res.ok
       ELSE ~Tile_info([rd |-> AtNextOffset, res |-> "ok"], header[1].tile_size).res.ok

\* a stage of Cell::new or TexturedQuadTree::new is about to fail
StageFails == HeaderFails \/ OffsetReadFails \/ SeekFails \/ NodeDecodeFails

\* a stage that fails ends the call with an error: no tile is added, no
\* further byte is decoded
FailureEndsTheCall ==
    StageFails => (pc' = "return" /\ IsErr(result') /\ tiles' = tiles /\ offsets' = offsets)

\* what a decoder returned is an error without a value, or a panic, or a
\* Cell / TexturedQuadTree whose tree was built from all full_size(depth)
\* nodes, each decoded from its own offset
NoPartialTree ==
    (pc = "return" /\ call.fn \in {"Cell::new", "TexturedQuadTree::new"}) =>
        /\ result # NoResult
        /\ ~result.ok => "v" \notin DOMAIN result
        /\ result.ok =>
              /\ Len(tiles) = full_size(header[1].depth)
              /\ Len(offsets.vals) = full_size(header[1].depth)
              /\ reader.seeks = offsets.vals
              /\ result.v.lod = build_complete_tree(tiles, header[1].depth)
              /\ result.v.depth = header[1].depth

\* Map::new waits for a decoder it called
MapWaits == map.pc \in {"color_wait", "normal_wait", "cell_wait"}

\* a decoder that fails makes Map::new return that failure at once: no file
\* is opened after it
FailureEndsTheMap ==
    (MapWaits /\ pc = "return" /\ ~result.ok) =>
        (map'.pc = "return" /\ map'.result = result /\ opened' = opened)

\* the files Map::new opens for a map that loads
FilesOfMap(info) ==
    LET n == Len(info.grid) IN
    n * ((IF info.has_color THEN 1 ELSE 0) + (IF info.has_normals THEN 1 ELSE 0) + 1)

\* Map::new returns a Map only after every file of every cell has loaded,
\* and an error carries no Map; no path is opened twice
NoPartialMap ==
    /\ \A i, j \in 1..Len(opened) : i # j => opened[i] # opened[j]
    /\ (MapWaits /\ pc = "return" /\ result.ok) => Len(opened) <= 1 + FilesOfMap(map.info[1])
    /\ map.pc = "return" =>
          /\ ~map.result.ok => "v" \notin DOMAIN map.result
          /\ map.result.ok =>
                /\ Len(opened) = 1 + FilesOfMap(map.result.v.info)
                /\ result.ok \/ result = NoResult
                /\ Len(map.result.v.cells) = map.result.v.abstract_size[1]
                /\ \A r \in 1..Len(map.result.v.cells) :
                      /\ Len(map.result.v.cells[r]) = map.result.v.abstract_size[2]
                      /\ \A c \in 1..Len(map.result.v.cells[r]) :
                            /\ map.result.v.cells[r][c].position = <<r - 1, c - 1>>
                            /\ map.result.v.info.has_color
                                  <=> map.result.v.cells[r][c].color_tqt # None
                            /\ map.result.v.info.has_normals
                                  <=> map.result.v.cells[r][c].normal_tqt # None

\* C8: loading is fail-fast with no partial result.  In Cell::new and
\* TexturedQuadTree::new a failing header check, offset read, seek or node
\* decode ends the call with an error at that step, and a call returns either
\* an error without a value or a tree built from all its nodes; in Map::new
\* a failing cell or texture file makes Map::new return that failure at once,
\* no file is opened again or after the failure, and a Map is returned only
\* when every file of every cell has loaded.
C8_FailFastNoPartialResult ==
    /\ [][FailureEndsTheCall]_vars
    /\ [][FailureEndsTheMap]_vars
    /\ [](NoPartialTree /\ NoPartialMap)

\* Map::new has failed in a cell after some of its nodes were decoded: the
\* nodes, and the color texture that had loaded whole, are not returned
C8_Witness ==
    /\ map.pc = "return"
    /\ IsErr(map.result)
    /\ call.fn = "Cell::new"
    /\ tiles # <<>>
    /\ call.color_tqt # None

\* Map::new has failed on the second cell of a map: the first cell, loaded
\* whole, is not returned
C8_WitnessSecondCell ==
    /\ map.pc = "return"
    /\ IsErr(map.result)
    /\ call.fn = "Cell::new"
    /\ call.position # <<0, 0>>
    /\ Len(map.cells) + Len(map.cell_row) = 1

\* a seek that fails has ended a texture load
C8_WitnessSeek ==
    /\ map.pc = "return"
    /\ map.result = Err("Unable to seek to tile")

\* a map of two cells has loaded
C8_WitnessLoaded ==
    /\ map.pc = "return"
    /\ map.result.ok
    /\ Len(map.result.v.info.grid) = 2
    /\ Len(opened) = 7

(***************************************************************************)
(* The checks of TexturedQuadTree::new, under SpecMap.                     *)
(***************************************************************************)
\* TexturedQuadTree::new is running or has just returned
InTqt == call.fn = "TexturedQuadTree::new"

\* the bytes of the texture file being decoded
TqtBytes == fs[call.path]

\* the width and height the image at file offset `off` declares
ImageSizeAt(off) == <<TqtBytes[off + 2], TqtBytes[off + 3]>>

\* at file offset `off` stands an image that decodes: signature, sizes, and
\* all its pixels
ImageDecodesAt(off) ==
    /\ off + 3 <= Len(TqtBytes)
    /\ TqtBytes[off + 1] = PNG_SIGNATURE
    /\ off + 3 + ImageSizeAt(off)[1] * ImageSizeAt(off)[2] * 3 <= Len(TqtBytes)

\* the image at file offset `off` is tile_size wide and tile_size high
ImageFitsAt(off) == ImageSizeAt(off) = <<header[1].tile_size, header[1].tile_size>>

\* the header checks have run: a wrong magic number gives InvalidFormat
\* whatever the version is, and only then a wrong version gives
\* UnsupportedVersion
TqtHeaderOrder ==
    (InTqt /\ header # None /\ pc \notin {"tqt_header", "tqt_check"}) =>
        IF header[1].magic # TQT_MAGIC
        THEN pc \in {"return", "idle"} /\ result = Err("Invalid magic no.")
        ELSE IF header[1].version # TQT_VERSION
        THEN pc \in {"return", "idle"} /\ result = Err("Invalid version no.")
        ELSE result # Err("Invalid magic no.") /\ result # Err("Invalid version no.")

\* the node about to be decoded holds an image that decodes and is not
\* tile_size x tile_size: the call ends there with TileSizeMismatch
TileSizeMismatchEndsTheCall ==
    (InTqt /\ InNodeLoop /\ NextOffset < Cap /\ ImageDecodesAt(NextOffset)
           /\ ~ImageFitsAt(NextOffset))
        => (pc' = "return" /\ result' = Err("Invalid tile size??") /\ tiles' = tiles)

\* every node decoded so far held a tile_size x tile_size image, and
\* TileSizeMismatch is only returned for an image of another size
TilesFit ==
    InTqt =>
        /\ \A k \in 1..Len(tiles) :
              /\ ImageDecodesAt(offsets.vals[k])
              /\ ImageFitsAt(offsets.vals[k])
              /\ Len(tiles[k].image) = header[1].tile_size * header[1].tile_size * 3
        /\ result = Err("Invalid tile size??") =>
              /\ pc \in {"return", "idle"}
              /\ Len(tiles) < Len(offsets.vals)
              /\ ImageDecodesAt(offsets.vals[Len(tiles) + 1])
              /\ ~ImageFitsAt(offsets.vals[Len(tiles) + 1])

\* a tree is returned only from a header with the magic number and the
\* version, and from full_size(depth) images
TqtOnlyFromValidFile ==
    (InTqt /\ pc = "return" /\ result.ok) =>
        /\ header[1].magic = TQT_MAGIC
        /\ header[1].version = TQT_VERSION
        /\ Len(tiles) = full_size(header[1].depth)
        /\ result.v.tile_size = header[1].tile_size

\* C11: TexturedQuadTree::new checks the magic number first (InvalidFormat)
\* and then the version (UnsupportedVersion unless it is 1); while decoding
\* the nodes it fails with TileSizeMismatch at the first node whose decoded
\* image is not tile_size wide and tile_size high; it returns a tree only if
\* magic and version match and all full_size(depth) images are
\* tile_size x tile_size.
C11_TqtChecks ==
    /\ [](TqtHeaderOrder /\ TilesFit /\ TqtOnlyFromValidFile)
    /\ [][TileSizeMismatchEndsTheCall]_vars

\* a file with a wrong magic number and a wrong version was refused for its
\* magic number
C11_Witness ==
    /\ InTqt /\ pc = "return"
    /\ header # None
    /\ header[1].magic # TQT_MAGIC /\ header[1].version # TQT_VERSION
    /\ result = Err("Invalid magic no.")

\* the last image of a texture of depth 2 is one row too high: the call
\* failed there after four images were decoded
C11_WitnessTall ==
    /\ InTqt /\ pc = "return"
    /\ result = Err("Invalid tile size??")
    /\ Len(tiles) = 4
    /\ ImageSizeAt(offsets.vals[5]) = <<header[1].tile_size, header[1].tile_size + 1>>

\* a texture of depth 2 was returned
C11_WitnessLoaded ==
    /\ InTqt /\ pc = "return" /\ result.ok
    /\ Len(tiles) = 5

(***************************************************************************)
(* Claims about the AABB, checked under SpecBox.                           *)
(***************************************************************************)
\* the eight corners of a box
Corners(b) == {[i \in Axes |-> IF pick[i] = 1 THEN b.max[i] ELSE b.min[i]] : pick \in Points}

\* C13: for every box and every normal, in each of the 8 sign combinations
\* and also with zero components, get_vertex_p returns on each axis max
\* where the normal is >= 0 and min elsewhere, get_vertex_n returns the
\* opposite choice on every axis, and the two are diagonally opposite
\* corners of the box.
C13_VertexSelection ==
    op \in {"get_vertex_p", "get_vertex_n"} =>
        LET p == IF op = "get_vertex_p" THEN out ELSE get_vertex_p(box, arg)
            n == IF op = "get_vertex_n" THEN out ELSE get_vertex_n(box, arg)
        IN  /\ \A i \in Axes :
                  /\ arg[i] >= 0 => (p[i] = box.max[i] /\ n[i] = box.min[i])
                  /\ arg[i] < 0 => (p[i] = box.min[i] /\ n[i] = box.max[i])
                  /\ p[i] + n[i] = box.min[i] + box.max[i]
            /\ p \in Corners(box)
            /\ n \in Corners(box)

\* get_vertex_p was asked with a normal that has a zero, a negative and a
\* positive component, on a box with min < max on every axis
C13_Witness ==
    /\ op = "get_vertex_p"
    /\ arg = <<0, -1, 1>>
    /\ \A i \in Axes : box.min[i] < box.max[i]
    /\ out = <<box.max[1], box.min[2], box.max[3]>>

\* get_vertex_n was asked with an all-negative normal
C13_WitnessN ==
    /\ op = "get_vertex_n"
    /\ arg = <<-1, -1, -1>>
    /\ box.min # box.max
    /\ out = box.max

\* C14: a += b sets a to the component-wise minimum of the mins and maximum
\* of the maxes; it is commutative (b += a gives the same box), associative
\* (merging b then c gives the same box for every grouping and order) and
\* idempotent (a += a leaves a unchanged); the merged box contains both
\* operands.
C14_MergeLaws ==
    op = "add_assign" =>
        /\ \A i \in Axes :
              /\ box.min[i] = Min(out.min[i], arg.min[i])
              /\ box.max[i] = Max(out.max[i], arg.max[i])
              /\ box.min[i] <= out.min[i] /\ out.max[i] <= box.max[i]
              /\ box.min[i] <= arg.min[i] /\ arg.max[i] <= box.max[i]
        /\ add_assign(arg, out) = box
        /\ add_assign(out, out) = out
        /\ add_assign(box, box) = box
        /\ \A c \in Operands :
              /\ add_assign(box, c) = add_assign(out, add_assign(arg, c))
              /\ add_assign(box, c) = add_assign(add_assign(out, c), arg)
              /\ add_assign(box, c) = add_assign(add_assign(c, arg), out)

\* two boxes that do not contain one another were merged: the result is
\* neither of them
C14_Witness ==
    /\ op = "add_assign"
    /\ box # out
    /\ box # arg
    /\ out.min[1] < arg.min[1]
    /\ out.max[2] < arg.max[2]

(***************************************************************************)
(* Claims about the boxes of the tiles, checked under SpecMap.             *)
(***************************************************************************)
RECURSIVE NodesOf(_)
\* the values of all nodes of a complete tree
NodesOf(t) ==
    IF t.tag = "Leaf" THEN {t.value}
    ELSE {t.value} \cup NodesOf(t.nw) \cup NodesOf(t.ne) \cup NodesOf(t.se) \cup NodesOf(t.sw)

\* the elements of a sequence
Range(seq) == {seq[j] : j \in 1..Len(seq)}

\* the cells of the rows of a grid
GridCells(rows) == UNION {Range(rows[r]) : r \in 1..Len(rows)}

\* the cells that exist: the one Cell::new has just returned, those Map::new
\* holds while it loads, those of the Map it returned
CellsInState ==
    (IF call.fn = "Cell::new" /\ pc = "return" /\ result.ok THEN {result.v} ELSE {})
    \cup (IF map.pc \in {"idle", "map_open", "return"} THEN {}
          ELSE GridCells(map.cells) \cup Range(map.cell_row)
               \cup GridCells(map.new_cells) \cup Range(map.new_row))
    \cup (IF map.pc = "return" /\ map.result.ok THEN GridCells(map.result.v.cells) ELSE {})

\* the boxes that exist: the box of the harness and the boxes of the tiles
BoxesInState ==
    (IF box = NoBox THEN {} ELSE {box})
    \cup {tile.bbox[1] : tile \in {t \in UNION {NodesOf(cell.lod) : cell \in CellsInState} :
                                      t.bbox # None}}

\* C12: every AABB that exists in a reachable state has min <= max on each
\* of the three axes, the tile boxes put_in_map stores from the decoded
\* min_y / max_y and the scales of the map included.
C12_EveryBoxOrdered == \A b \in BoxesInState : Ordered(b)

\* a map has loaded and its tiles have boxes
C12_Witness ==
    /\ map.pc = "return"
    /\ map.result.ok
    /\ BoxesInState # {}

(***************************************************************************)
(* Claims about Frustum::intersect, checked under SpecPlanes.              *)
(***************************************************************************)
\* the signed distance of the box's p-vertex, and of its n-vertex, to plane k
DistanceP(k) ==
    Plane_distance(PlanesOf(frustum)[k], get_vertex_p(box, PlanesOf(frustum)[k].normal))

DistanceN(k) ==
    Plane_distance(PlanesOf(frustum)[k], get_vertex_n(box, PlanesOf(frustum)[k].normal))

\* other orders of examining six planes: the rotations of the order of the
\* code, and each of them reversed
PlaneOrders ==
    {[k \in 1..6 |-> ((k + r - 1) % 6) + 1] : r \in 0..5}
    \cup {[k \in 1..6 |-> ((r - k + 12) % 6) + 1] : r \in 0..5}

\* the planes in another order
Reordered(planes, order) == [k \in 1..6 |-> planes[order[k]]]

\* C15: Frustum::intersect returns Outside if and only if for at least one
\* of the six planes the signed distance of get_vertex_p(plane.normal) is
\* negative; otherwise Intersecting if and only if for at least one plane
\* the signed distance of get_vertex_n(plane.normal) is negative; otherwise
\* Inside.  The result does not depend on the order of the planes: Outside
\* wins even when an earlier plane has marked the box as intersecting.
C15_IntersectDecision ==
    op = "intersect" =>
        /\ out \in {"Outside", "Intersecting", "Inside"}
        /\ out = "Outside" <=> \E k \in 1..6 : DistanceP(k) < 0
        /\ out = "Intersecting" <=>
              /\ \A k \in 1..6 : DistanceP(k) >= 0
              /\ \E k \in 1..6 : DistanceN(k) < 0
        /\ out = "Inside" <=> \A k \in 1..6 : DistanceP(k) >= 0 /\ DistanceN(k) >= 0
        /\ \A order \in PlaneOrders :
              intersect_planes(Reordered(PlanesOf(frustum), order), box, FALSE) = out

\* the far plane, examined first, cuts the box, and a later plane has the
\* whole box on its negative side: the result is Outside
C15_Witness ==
    /\ op = "intersect"
    /\ DistanceP(1) >= 0 /\ DistanceN(1) < 0
    /\ \E k \in 2..6 : DistanceP(k) < 0
    /\ out = "Outside"

\* all three results occur
C15_WitnessIntersecting == op = "intersect" /\ out = "Intersecting"

C15_WitnessInside == op = "intersect" /\ out = "Inside"

\* the points with integer coordinates of a box
LatticePoints(b) ==
    (b.min[1]..b.max[1]) \X (b.min[2]..b.max[2]) \X (b.min[3]..b.max[3])

\* the point lies in the view volume: in all six inward half-spaces
InVolume(q) == \A k \in 1..6 : Plane_distance(PlanesOf(frustum)[k], q) >= 0

\* the box and the view volume have a point in common
CommonPoint == \E q \in LatticePoints(box) : InVolume(q)

\* C16: the inside/intersecting distinction is conservative: for any six
\* planes and any box with min <= max, if the result is Inside then all
\* eight corners of the box have non-negative signed distance to every
\* plane; a box with a corner outside some plane, or entirely outside the
\* volume, is never classified Inside.
C16_InsideIsConservative ==
    (op = "intersect" /\ Ordered(box)) =>
        /\ out = "Inside" => \A c \in Corners(box) : InVolume(c)
        /\ (\E c \in Corners(box) : ~InVolume(c)) => out # "Inside"
        /\ ~CommonPoint => out # "Inside"

\* a box with min < max on every axis is Inside the pyramid
C16_Witness ==
    /\ op = "intersect"
    /\ out = "Inside"
    /\ frustum = PyramidFrustum
    /\ \A i \in Axes : box.min[i] < box.max[i]

\* a box with a single corner outside the pyramid is Intersecting
C16_WitnessCorner ==
    /\ op = "intersect"
    /\ out = "Intersecting"
    /\ frustum = PyramidFrustum
    /\ Cardinality({c \in Corners(box) : ~InVolume(c)}) = 1

\* C17 as stated: Frustum::intersect returns Outside if and only if the box
\* and the frustum volume have no point in common; a box disjoint from the
\* volume is never reported as Intersecting or Inside.
C17_OutsideIffDisjoint ==
    op = "intersect" => (out = "Outside" <=> ~CommonPoint)

\* some plane has the whole box strictly on its negative side
SeparatedByAPlane ==
    \E k \in 1..6 : \A c \in Corners(box) : Plane_distance(PlanesOf(frustum)[k], c) < 0

\* C17 amended: Outside is sound, not exact.  Frustum::intersect returns
\* Outside if and only if one of the six planes has the whole box on its
\* negative side; then the box and the volume have no point in common.  A
\* box disjoint from the volume is never reported Inside, but it is
\* reported Intersecting when no single plane separates it from the volume.
C17_OutsideIsSound ==
    (op = "intersect" /\ Ordered(box)) =>
        /\ out = "Outside" <=> SeparatedByAPlane
        /\ out = "Outside" => ~CommonPoint
        /\ ~CommonPoint => out \in {"Outside", "Intersecting"}

\* a box above the edge in which the planes x + y <= -2 and y <= x - 2
\* meet: it has no point in common with the volume, no plane separates it,
\* and it is reported Intersecting
C17_Witness ==
    /\ op = "intersect"
    /\ out = "Intersecting"
    /\ ~CommonPoint
    /\ frustum.top_face = Plane(<<-1, -1, 0>>, <<0, -2, 0>>)
    /\ frustum.right_face = Plane(<<1, -1, 0>>, <<0, -2, 0>>)
    /\ box.min[2] >= 0

\* a box separated by one plane is reported Outside
C17_WitnessOutside ==
    /\ op = "intersect"
    /\ out = "Outside"
    /\ SeparatedByAPlane
    /\ box.min[3] >= 0 /\ box.max[3] <= 6

(***************************************************************************)
(* Claims about Frustum::new, checked under SpecFrustum.                   *)
(***************************************************************************)
\* how far the point lies along the view direction, to the right, upwards
Along(c, q) == Dot(Camera_front(c), VSub(q, c.pos))

Sideways(c, q) == Dot(Camera_right(c), VSub(q, c.pos))

Upwards(c, q) == Dot(Camera_up(c), VSub(q, c.pos))

\* the point lies in the view volume of the camera: between near_z and
\* far_z and within the half angle fov / 2 of the axis to the sides and up
\* and down (the aspect ratios are >= 1, so this is inside the volume
\* whichever of the two half angles the aspect ratio widens)
InViewVolume(c, q) ==
    /\ c.near_z <= Along(c, q) /\ Along(c, q) <= c.far_z
    /\ Abs(Sideways(c, q)) <= Along(c, q) * c.tan_half_fov
    /\ Abs(Upwards(c, q)) <= Along(c, q) * c.tan_half_fov

\* points of the view volume: on the axis from near_z to far_z, and one
\* unit from it to the right, to the left, upwards and downwards
VolumePoints(c) ==
    {ViewPoint(c, d, ab[1], ab[2]) :
        d \in c.near_z..c.far_z,
        ab \in {<<0, 0>>, <<1, 0>>, <<-1, 0>>, <<0, 1>>, <<0, -1>>}}

\* C19: every one of the six planes built by Frustum::new is oriented
\* inward: every point of the view volume, in particular every point
\* pos + d * front with near_z <= d <= far_z and points slightly displaced
\* from the axis towards each of the four sides, has non-negative signed
\* distance to each of the six planes.
C19_PlanesInward ==
    frustum # NoFrustum =>
        \A q \in VolumePoints(camera) :
            InViewVolume(camera, q) =>
                \A k \in 1..6 : Plane_distance(PlanesOf(frustum)[k], q) >= 0

\* the near, far, right and left planes are inward
C19_WitnessFourPlanes ==
    /\ frustum # NoFrustum
    /\ \A q \in VolumePoints(camera) :
          /\ InViewVolume(camera, q)
          /\ \A k \in {1, 2, 5, 6} : Plane_distance(PlanesOf(frustum)[k], q) >= 0

\* the box is centred on the axis of the camera
OnAxis(c, b) ==
    /\ Sideways(c, VAdd(b.min, b.max)) = 2 * Sideways(c, c.pos)
    /\ Upwards(c, VAdd(b.min, b.max)) = 2 * Upwards(c, c.pos)

\* the box lies well within the near and far distances, and in the volume
WellWithin(c, b) ==
    \A q \in Corners(b) :
        /\ InViewVolume(c, q)
        /\ c.near_z < Along(c, q) /\ Along(c, q) < c.far_z

\* the box lies entirely behind the camera position
Behind(c, b) == \A q \in Corners(b) : Along(c, q) < 0

\* the box straddles the far plane
StraddlesFar(c, b) ==
    /\ \E q \in Corners(b) : Along(c, q) < c.far_z
    /\ \E q \in Corners(b) : Along(c, q) > c.far_z

\* C18: for the frustum built by Frustum::new from a camera looking down
\* -z with a symmetric field of view, intersect classifies a box centred on
\* the axis and well within near and far as Inside, a box entirely behind
\* the camera as Outside, and a box centred on the axis that straddles the
\* far plane as Intersecting.
C18_CameraClassification ==
    (op = "intersect" /\ Camera_front(camera) = <<0, 0, -1>>) =>
        /\ (OnAxis(camera, box) /\ WellWithin(camera, box)) => out = "Inside"
        /\ Behind(camera, box) => out = "Outside"
        /\ (OnAxis(camera, box) /\ StraddlesFar(camera, box)) => out = "Intersecting"

\* a box behind a camera that looks down -z is classified Outside
C18_WitnessBehind ==
    /\ op = "intersect"
    /\ Camera_front(camera) = <<0, 0, -1>>
    /\ Behind(camera, box)
    /\ out = "Outside"

(***************************************************************************)
(* Claims about the placement of the cells, checked under SpecMap.         *)
(***************************************************************************)
\* the cells as decoded: the one Cell::new has just returned and those
\* Map::new collects in cell_row and cells
DecodedCells ==
    (IF call.fn = "Cell::new" /\ pc = "return" /\ result.ok THEN {result.v} ELSE {})
    \cup (IF map.pc \in {"idle", "map_open", "return"} THEN {}
          ELSE GridCells(map.cells) \cup Range(map.cell_row))

\* the clones the placement pass has pushed, and the cells of a returned Map
ClonedCells ==
    (IF map.pc \in {"idle", "map_open", "return"} THEN {}
     ELSE GridCells(map.new_cells) \cup Range(map.new_row))
    \cup (IF map.pc = "return" /\ map.result.ok THEN GridCells(map.result.v.cells) ELSE {})

\* the tiles of the cell have a box exactly if the cell is in the map, and
\* the cell has a tile for every node of every level
PlacedAsItsTiles(cell) ==
    /\ Cardinality(NodesOf(cell.lod)) = full_size(cell.depth)
    /\ \A level \in 0..(cell.depth - 1) :
          Cardinality({t \in NodesOf(cell.lod) : t.level = level}) = 4 ^ level
    /\ \A t \in NodesOf(cell.lod) : Tile_is_in_map(t) <=> Cell_is_in_map(cell)

\* the positions of the cells of a grid, row by row
PositionsOf(rows) == Flatten([r \in 1..Len(rows) |-> [c \in 1..Len(rows[r]) |-> rows[r][c].position]])

\* in every state: a cell is in the map exactly if all its tiles are, a
\* decoded cell is not, a clone pushed by the placement pass is, and the
\* cells of a returned Map are the clones of one call of put_in_map each
PlacementInvariant ==
    /\ \A cell \in DecodedCells \cup ClonedCells : PlacedAsItsTiles(cell)
    /\ \A cell \in DecodedCells : ~Cell_is_in_map(cell)
    /\ \A cell \in ClonedCells :
          /\ Cell_is_in_map(cell)
          /\ cell.worldly_width = Some(world_cell_width(map.info[1]))
    /\ (map.pc = "return" /\ map.result.ok) =>
          /\ map.placed = PositionsOf(map.result.v.cells)
          /\ Len(map.placed) = map.result.v.abstract_size[1] * map.result.v.abstract_size[2]
          /\ \A i, j \in 1..Len(map.placed) : i # j => map.placed[i] # map.placed[j]

\* the cell the placement pass clones next
NextToPlace(m) == m.cells[Len(m.new_cells) + 1][Len(m.new_row) + 1]

\* the clone the placement pass pushed last
LastPlaced(m) ==
    IF m.new_row # <<>> THEN m.new_row[Len(m.new_row)]
    ELSE m.new_cells[Len(m.new_cells)][Len(m.new_cells[Len(m.new_cells)])]

\* `after` is `before` put in the map: worldly_width is set and every tile
\* went from no box to a box, nothing else changed
PutInMapOf(before, after) ==
    /\ ~Cell_is_in_map(before) /\ Cell_is_in_map(after)
    /\ \A t \in NodesOf(before.lod) : ~Tile_is_in_map(t)
    /\ \A t \in NodesOf(after.lod) : Tile_is_in_map(t)
    /\ {[t EXCEPT !.bbox = None] : t \in NodesOf(after.lod)} = NodesOf(before.lod)
    /\ [after EXCEPT !.worldly_width = None, !.lod = before.lod] = before

\* a call of put_in_map is one pass over one decoded cell
PutInMapInOnePass ==
    (map.pc = "place" /\ map'.placed # map.placed) =>
        /\ map'.placed = Append(map.placed, NextToPlace(map).position)
        /\ PutInMapOf(NextToPlace(map), LastPlaced(map'))
        /\ map'.cells = map.cells

\* C20: in every reachable state a tile has bbox = Some exactly when its
\* owning cell has been placed: right after decoding every tile of the cell
\* has bbox = None and Cell::is_in_map() is false; put_in_map sets
\* worldly_width and takes the bbox of every node of the cell's quadtree,
\* of all levels, from None to Some in one pass; every cell of a Map
\* returned by Map::new has been placed exactly once.
C20_PlacedExactlyOnce ==
    /\ []PlacementInvariant
    /\ [][PutInMapInOnePass]_vars

\* a map whose cell has two levels was returned: its five tiles have boxes
C20_Witness ==
    /\ map.pc = "return"
    /\ map.result.ok
    /\ map.placed = <<(<<0, 0>>)>>
    /\ map.result.v.cells[1][1].depth = 2
    /\ Cardinality({t \in NodesOf(map.result.v.cells[1][1].lod) : Tile_is_in_map(t)}) = 5

\* the placement pass of a map of two cells has placed the first cell
C20_WitnessHalfway ==
    /\ map.pc = "place"
    /\ Len(map.placed) = 1
    /\ Cardinality(DecodedCells) = 2
    /\ Cardinality(ClonedCells) = 1


(***************************************************************************)
(* Properties of the placement of one cell (SpecPlace).                    *)
(***************************************************************************)
\* put_in_map has just returned, and the cell had been placed before the call
SecondCall == op = "put_in_map" /\ Cell_is_in_map(out)

\* C21 (as stated): put_in_map is not idempotent: the tile boxes after a
\* second call on a placed cell, with the same map, differ from those after
\* the first call (they are offset twice).
C21_SecondCallDoubleOffsets == SecondCall => new_cell.lod # out.lod

\* C21 (amended): put_in_map is idempotent: it has no guard against a second
\* call and never rejects one, and a second call on a placed cell with the
\* same map computes every tile box afresh from the cell position, the map
\* and the tile, so the cell after two calls equals the cell after one.
C21_SecondCallRepeats ==
    op = "put_in_map" =>
        /\ Cell_is_in_map(new_cell)
        /\ \A t \in NodesOf(new_cell.lod) : Tile_is_in_map(t)
        /\ Cell_is_in_map(out) => new_cell = out

\* a second call on a cell away from the origin, whose corner offset is not 0
C21_Witness ==
    /\ SecondCall
    /\ new_cell.position = <<1, 1>>
    /\ new_cell.depth > 1

\* C22 (as stated): put_in_map sets worldly_width to map.world_cell_width()
\* and the world corner of the cell at grid position (cell_row, cell_col)
\* is (h_scale * cell_col, 0, h_scale * cell_row).
C22_CornerByHScale ==
    /\ op = "put_in_map" => new_cell.worldly_width = Some(arg.cell_width * arg.h_scale)
    /\ op = "corner_world_position" /\ Cell_is_in_map(new_cell) =>
          out = Ok(<<arg.h_scale * new_cell.position[2], 0,
                     arg.h_scale * new_cell.position[1]>>)

\* C22 (amended): put_in_map sets worldly_width to map.world_cell_width() =
\* cell_width * h_scale, and the world corner of the cell at (cell_row,
\* cell_col) is (worldly_width * cell_col, 0, worldly_width * cell_row): the
\* grid position scaled by the world width of a cell, not by h_scale alone.
\* Before put_in_map, corner_world_position panics.
C22_CornerByCellWidth ==
    /\ op = "put_in_map" =>
          new_cell.worldly_width = Some(arg.cell_width * arg.h_scale)
    /\ op = "corner_world_position" =>
          IF Cell_is_in_map(new_cell)
          THEN out = Ok(<<arg.cell_width * arg.h_scale * new_cell.position[2], 0,
                          arg.cell_width * arg.h_scale * new_cell.position[1]>>)
          ELSE out = Panic("Put the cell in a map first!")

\* the corner of a placed cell of row 0 and column 1, in a map whose cells
\* are wider than one sample, has been asked for
C22_Witness ==
    /\ op = "corner_world_position"
    /\ Cell_is_in_map(new_cell)
    /\ new_cell.position = <<0, 1>>
    /\ arg.cell_width > 1

\* the corner was asked for before the cell was put in a map
C22_WitnessPanic == op = "corner_world_position" /\ ~Cell_is_in_map(new_cell)

\* the box the tile t of a cell at grid position pos gets in the map `info`
TileBoxOf(t, pos, info) ==
    LET w == info.h_scale * (info.cell_width \div (2 ^ t.level))
        min_x == info.cell_width * info.h_scale * pos[2] + info.h_scale * t.position[2]
        min_z == info.cell_width * info.h_scale * pos[1] + info.h_scale * t.position[1]
    IN  [min |-> <<min_x, info.base_elevation + info.v_scale * t.chunk.min_y, min_z>>,
         max |-> <<min_x + w, info.base_elevation + info.v_scale * t.chunk.max_y, min_z + w>>]

\* C23: every tile at (level, tile_row, tile_col) of a placed cell has the
\* box with min = cell_corner + (h_scale * tile_col, base_elevation + v_scale
\* * chunk.min_y, h_scale * tile_row) and max = (min.x + w, base_elevation +
\* v_scale * chunk.max_y, min.z + w), w = h_scale * (cell_width >> level): a
\* function of the cell position, the map parameters and the tile's own
\* level, row, col, min_y and max_y, and nothing else of the tile changes.
C23_TileBoxFormula ==
    op = "put_in_map" =>
        \A t \in NodesOf(new_cell.lod) :
            /\ t.bbox = Some(TileBoxOf(t, new_cell.position, arg))
            /\ [t EXCEPT !.bbox = None] \in NodesOf(LoadedCell(new_cell.position, new_cell.depth).lod)

\* a cell of three levels, away from the origin, has been placed in a map
\* whose tiles shrink with the level
C23_Witness ==
    /\ op = "put_in_map"
    /\ new_cell.depth = 3
    /\ new_cell.position = <<1, 0>>
    /\ arg.cell_width = 4
    /\ arg.h_scale = 2

\* the tiles of one level of a cell
TilesAtLevel(cell, level) == {t \in NodesOf(cell.lod) : t.level = level}

\* the x and z extents of two boxes share no interior point
FootprintsApart(a, b) ==
    \/ a.max[1] <= b.min[1] \/ b.max[1] <= a.min[1]
    \/ a.max[3] <= b.min[3] \/ b.max[3] <= a.min[3]

\* the x and z extent of box a lies in the square of side w at corner
FootprintWithin(a, corner, w) ==
    /\ corner[1] <= a.min[1] /\ a.max[1] <= corner[1] + w
    /\ corner[3] <= a.min[3] /\ a.max[3] <= corner[3] + w

\* the area of the x and z extent of a box
FootprintArea(a) == (a.max[1] - a.min[1]) * (a.max[3] - a.min[3])

RECURSIVE SumAreas(_)
SumAreas(boxes) ==
    IF boxes = {} THEN 0
    ELSE LET b == CHOOSE x \in boxes : TRUE IN FootprintArea(b) + SumAreas(boxes \ {b})

\* the footprints of the tiles of one level are pairwise interior-disjoint
\* and cover exactly the square [corner, corner + worldly_width] of the cell
LevelTilesTheCell(cell, level) ==
    LET ts == TilesAtLevel(cell, level)
        corner == corner_world_position(cell).v
        w == cell.worldly_width[1]
    IN  /\ \A t \in ts : FootprintWithin(t.bbox[1], corner, w)
        /\ \A t, u \in ts : t # u => FootprintsApart(t.bbox[1], u.bbox[1])
        /\ SumAreas({t.bbox[1] : t \in ts}) = w * w

\* C28: after put_in_map, for every level l of the cell the x, z footprints
\* of the 4^l tile boxes of that level are pairwise interior-disjoint and
\* cover exactly the cell's square footprint, for maps whose cell_width is a
\* power of two no smaller than 2^l.
C28_LevelsTileTheCell ==
    op = "put_in_map" =>
        \A level \in 0..(new_cell.depth - 1) :
            arg.cell_width >= 2 ^ level => LevelTilesTheCell(new_cell, level)

\* a cell of two levels or more has been placed in a map whose cells are
\* wider than the tiles of level 1 are many
C28_Witness ==
    /\ op = "put_in_map"
    /\ new_cell.depth >= 2
    /\ arg.cell_width = 4
    /\ Cardinality(TilesAtLevel(new_cell, 1)) = 4


(***************************************************************************)
(* More properties of the AABB (SpecBox).                                  *)
(***************************************************************************)
\* the points planes are laid through
PlanePoints == Points \cup {VNeg(q) : q \in Points}

\* C24: for every box with min <= max and every normal, get_vertex_p(normal)
\* is a corner that maximises normal . c over the eight corners c and
\* get_vertex_n(normal) one that minimises it; so for any plane with that
\* normal, distance(p-vertex) >= distance(every corner) >= distance(n-vertex),
\* and testing these two corners against the plane decides as testing all
\* eight does.
C24_VerticesAreExtreme ==
    op \in {"get_vertex_p", "get_vertex_n"} /\ Ordered(box) =>
        LET p == IF op = "get_vertex_p" THEN out ELSE get_vertex_p(box, arg)
            n == IF op = "get_vertex_n" THEN out ELSE get_vertex_n(box, arg)
        IN  /\ p \in Corners(box) /\ n \in Corners(box)
            /\ \A c \in Corners(box) : Dot(arg, p) >= Dot(arg, c) /\ Dot(arg, c) >= Dot(arg, n)
            /\ \A q \in PlanePoints :
                  LET plane == Plane(arg, q) IN
                  /\ \A c \in Corners(box) :
                        /\ Plane_distance(plane, p) >= Plane_distance(plane, c)
                        /\ Plane_distance(plane, c) >= Plane_distance(plane, n)
                  /\ Plane_distance(plane, p) < 0
                        <=> \A c \in Corners(box) : Plane_distance(plane, c) < 0
                  /\ Plane_distance(plane, n) >= 0
                        <=> \A c \in Corners(box) : Plane_distance(plane, c) >= 0

\* the p-vertex of a box with eight distinct corners was asked for with a
\* normal that leans against y and along z, for which the corners differ in
\* normal . c
C24_Witness ==
    /\ op = "get_vertex_p"
    /\ \A i \in Axes : box.min[i] < box.max[i]
    /\ arg = <<1, -1, 1>>
    /\ \E c \in Corners(box) : Dot(arg, c) < Dot(arg, out)

\* the point lies in the box
Contains(b, pt) == \A i \in Axes : b.min[i] <= pt[i] /\ pt[i] <= b.max[i]

\* C25: after b.add_pt(pt) the box contains pt, still contains every point it
\* contained before, and is the smallest such box: on each axis at most one
\* of min and max changed, and only to pt's coordinate; adding a point that
\* is inside the box leaves it unchanged.
C25_AddPtCovers ==
    op = "add_pt" =>
        /\ Contains(box, arg)
        /\ \A q \in Points : Contains(out, q) => Contains(box, q)
        /\ \A i \in Axes :
              /\ box.min[i] = out.min[i] \/ box.max[i] = out.max[i]
              /\ box.min[i] \in {out.min[i], arg[i]}
              /\ box.max[i] \in {out.max[i], arg[i]}
        /\ Contains(out, arg) => box = out

\* add_pt was called on a box with min.y > max.y, with a point below min.y
C25_Witness ==
    /\ op = "add_pt"
    /\ out.min[2] > out.max[2]
    /\ arg[2] < out.min[2]

\* add_pt grew a box with min <= max to a point outside it
C25_WitnessOrdered ==
    /\ op = "add_pt"
    /\ Ordered(out)
    /\ ~Contains(out, arg)
    /\ Contains(box, arg)


(***************************************************************************)
(* The half extents of the view volume at the far plane (SpecFrustum).     *)
(***************************************************************************)
\* the point lies on the plane
OnPlane(plane, pt) == Plane_distance(plane, pt) = 0

\* C26: in Frustum::new the vertical half extent at the far plane is half_v =
\* far_z * tan(fov / 2) and the horizontal one is half_h = half_v *
\* aspect_ratio; the left and right planes are built from half_h (they pass
\* through the far-plane points half_h to the left and right of the axis) and
\* the top and bottom planes from half_v (a plane built from the edge
\* front_far + up * half_v passes through the far-plane point half_v above
\* the axis); half_h / half_v = aspect_ratio.
C26_HalfExtents ==
    frustum # NoFrustum =>
        LET half_v == camera.far_z * camera.tan_half_fov
            half_h == half_v * camera.asepect_ratio
        IN  /\ camera_half_v_side(camera) = half_v
            /\ camera_half_h_side(camera) = half_h
            /\ half_v_side(camera) = half_v
            /\ half_h_side(camera) = half_h
            /\ OnPlane(frustum.right_face, ViewPoint(camera, camera.far_z, half_h, 0))
            /\ OnPlane(frustum.left_face, ViewPoint(camera, camera.far_z, -half_h, 0))
            /\ OnPlane(frustum.bottom_face, ViewPoint(camera, camera.far_z, 0, half_v))

\* a frustum has been built for a camera whose picture is twice as wide as
\* it is high
C26_Witness ==
    /\ frustum # NoFrustum
    /\ camera.asepect_ratio = 2
    /\ camera.tan_half_fov = 1


(***************************************************************************)
(* The order of the decoded tiles against the children of the complete     *)
(* tree (SpecPlace).                                                       *)
(***************************************************************************)
\* (i << 2) + 1 .. (i << 2) + 4: where the children of flat position i stand
ChildSlots(i) == {(i * 4) + k : k \in 1..4}

\* the flat indices of the four spatial sub-quadrants of (level, row, col)
SubQuadrants(level, row, col) ==
    {node_index(level + 1, (2 * row) + dr, (2 * col) + dc) : dr, dc \in {0, 1}}

RECURSIVE SubtreesOf(_)
\* the subtrees of a complete tree, itself included
SubtreesOf(t) ==
    IF t.tag = "Leaf" THEN {t}
    ELSE {t} \cup SubtreesOf(t.nw) \cup SubtreesOf(t.ne) \cup SubtreesOf(t.se) \cup SubtreesOf(t.sw)

\* the tiles of the four children of a node
ChildTiles(t) == {t.nw.value, t.ne.value, t.se.value, t.sw.value}

\* C27: for every node at (level, row, col) with level < depth - 1 and flat
\* index i = node_index(level, row, col), the child positions (i << 2) + 1..4
\* of tree construction are exactly the flat indices node_index(level + 1,
\* 2 * row + dr, 2 * col + dc), dr, dc in {0, 1}, of its four sub-quadrants;
\* so a tile decoded with (row, col) at some level is a child of the tile of
\* (row / 2, col / 2) one level up, which spatially contains it.
C27_ConventionsAgree ==
    new_cell # NoCell =>
        /\ \A t \in NodesOf(new_cell.lod) :
              t.level < new_cell.depth - 1 =>
                  ChildSlots(node_index(t.level, t.position[1], t.position[2]))
                      = SubQuadrants(t.level, t.position[1], t.position[2])
        /\ \A n \in SubtreesOf(new_cell.lod) :
              n.tag = "Node" =>
                  \A c \in ChildTiles(n) :
                      /\ c.level = n.value.level + 1
                      /\ c.position[1] \div 2 = n.value.position[1]
                      /\ c.position[2] \div 2 = n.value.position[2]

\* a cell of three levels: the nodes of level 1 have children
C27_Witness ==
    /\ new_cell # NoCell
    /\ new_cell.depth = 3
    /\ \E n \in SubtreesOf(new_cell.lod) : n.tag = "Node" /\ n.value.level = 1


(***************************************************************************)
(* The depth of a file header and the size of the offset table (SpecMap).  *)
(***************************************************************************)
\* a decoder has computed full_size(depth) and holds the offset table
PastFullSize == pc \in {"cell_offsets", "cell_tiles", "tqt_offsets", "tqt_tiles"}

\* C29: full_size is never evaluated on a depth for which 4^depth does not
\* fit in 32 bits: in Cell::new and in TexturedQuadTree::new the depth read
\* from the header is range-checked before full_size(depth) is computed, so
\* the number of offsets read is the true node count (4^depth - 1) / 3, never
\* a wrapped or overflowed value.
C29_DepthCheckedBeforeFullSize ==
    /\ PastFullSize =>
          /\ header[1].depth < 16
          /\ offsets.n = ((4 ^ header[1].depth) - 1) \div 3
    /\ result # Panic("attempt to multiply with overflow")

\* TexturedQuadTree::new holds an offset table for a header of depth 16
C29_Witness ==
    /\ call.fn = "TexturedQuadTree::new"
    /\ pc = "tqt_offsets"
    /\ header[1].depth = 16

\* Cell::new has rejected a header of depth 16
C29_WitnessCell ==
    /\ call.fn = "Cell::new"
    /\ pc = "return"
    /\ result = Err("Depth out of supported range.")
    /\ header[1].depth = 16


(***************************************************************************)
(* The swapchain state of the event loop (SpecLoop).                       *)
(***************************************************************************)
\* C30: once a Resized event, or a SubOptimal or Dirty result of draw, has
\* marked the swapchain as needing recreation, swapachain_state is not set
\* back to Good until recreate_swapchain has replaced the swapchain: on every
\* RedrawEventsCleared with a non-zero window size and state Dirty or
\* SubOptimal recreate_swapchain runs before draw, and a recreation that
\* returns early without replacing the swapchain (unsupported image extent)
\* does not let the pending recreation be forgotten.
C30_RecreationNotForgotten ==
    app # NoApp =>
        /\ app.pending => app.swapachain_state # "Good"
        /\ (/\ op = "RedrawEventsCleared"
            /\ ~IsZero(app.dimensions)
            /\ arg \in {"Dirty", "SubOptimal"}
            /\ app.control_flow = "Poll")
                => out = <<"recreate_swapchain", "draw">>

\* after a resize the handler of RedrawEventsCleared has called
\* recreate_swapchain and draw, and the swapchain still has the extent of
\* before the resize
C30_Witness ==
    /\ app # NoApp
    /\ op = "RedrawEventsCleared"
    /\ arg = "Dirty"
    /\ out = <<"recreate_swapchain", "draw">>
    /\ app.image_extent # app.dimensions
    /\ app.pending

====
